---- MODULE Spec2Model ----
(***************************************************************************)
(* The incremental transcription stabilization engine of voice-test-gui     *)
(* (src/clients/voice-test-gui/src/main.c): the periodic re-transcription   *)
(* kick, the WM_TRANSCRIBE_DONE reconciliation (fuzzy compare, commit       *)
(* selection, window advance, divergence guard) and the recording           *)
(* start/stop handlers, with the worker thread and the posted-message      *)
(* queue between them.                                                      *)
(*                                                                          *)
(* Texts are sequences of byte values (ASCII codes); C indices are 0-based, *)
(* so byte i of a C string s is s[i + 1] here.                              *)
(***************************************************************************)
EXTENDS Integers, Sequences, FiniteSets, TLC

(***************************************************************************)
(* Program constants.                                                       *)
(***************************************************************************)
WHISPER_SAMPLE_RATE == 16000
MAX_AUDIO_SECONDS == 120
MAX_AUDIO_SAMPLES == WHISPER_SAMPLE_RATE * MAX_AUDIO_SECONDS
RETRANSCRIBE_INTERVAL_SAMPLES == WHISPER_SAMPLE_RATE * 3
RETRANSCRIBE_MIN_SAMPLES == WHISPER_SAMPLE_RATE * 1
\* sizeof(g_finalized_text), sizeof(commit_buf) and sizeof(sentence)
FINALIZED_SIZE == 8192
COMMIT_BUF_SIZE == 8192
\* sizeof(g_prev_result), sizeof(g_asr_prompt)
PREV_RESULT_SIZE == 16384
ASR_PROMPT_SIZE == 4096
\* sizeof(prompt) of test_sim
SIM_PROMPT_SIZE == 8192
\* the literals of the commit selection and of the sentence-boundary resync
WEAK_MIN_BEFORE == 30
WEAK_MIN_AFTER == 15
RESYNC_MIN_MATCH == 20

(***************************************************************************)
(* Bounds of the model.                                                     *)
(***************************************************************************)
\* recordings started in one run
MaxSessions == 2
\* passes the backend answers in one run; one more request can be issued, which
\* stays in flight
MaxPasses == 2
\* capture buffers delivered in one recording, each of CaptureChunk samples
MaxChunks == 4
\* length of the texts of the commit-selection runs
MaxTextLen == 5
\* length of the texts the fuzzy compare is run on exhaustively
MaxProbeLen == 3

\* samples of one capture buffer: half a re-transcription interval
CaptureChunk == RETRANSCRIBE_INTERVAL_SAMPLES \div 2

(***************************************************************************)
(* C arithmetic.                                                            *)
(***************************************************************************)
\* (int)((long long)ms * WHISPER_SAMPLE_RATE / 1000): the product is a multiple of
\* 1000, so the quotient is ms * 16 exactly; the conversion to int keeps its low 32
\* bits (two's complement).  Computed on the residue of ms modulo 2^28 so that no
\* intermediate value leaves the 32-bit range.
MsToSamples(ms) ==
    LET m == ms % 268435456
    IN  IF m < 134217728
        THEN m * (WHISPER_SAMPLE_RATE \div 1000)
        ELSE (m - 268435456) * (WHISPER_SAMPLE_RATE \div 1000)

\* C integer division truncates toward zero
CDiv(a, b) == IF a >= 0 THEN a \div b ELSE -((-a) \div b)

Min(a, b) == IF a < b THEN a ELSE b

(***************************************************************************)
(* Text helpers.                                                            *)
(***************************************************************************)
\* s[i] of the C string s, 0-based
At(s, i) == s[i + 1]

\* the bytes s[from .. to) of a C string
Slice(s, from, to) == IF to <= from THEN << >> ELSE SubSeq(s, from + 1, to)

\* while (len > 0 && s[len - 1] == ' ') len--;
RECURSIVE StripTrailingSpaces(_)
StripTrailingSpaces(s) ==
    IF Len(s) > 0 /\ s[Len(s)] = 32
    THEN StripTrailingSpaces(SubSeq(s, 1, Len(s) - 1))
    ELSE s

\* strncpy(dst, src, size - 1); dst[size - 1] = '\0'
Truncate(s, size) == IF Len(s) > size - 1 THEN SubSeq(s, 1, size - 1) ELSE s

IsPrefix(p, s) == Len(p) <= Len(s) /\ SubSeq(s, 1, Len(p)) = p

\* the normalization without the folding of '-'
NormalizeKeepsHyphen(c) == IF c \in 65..90 THEN c + 32 ELSE c

\* (char)tolower((unsigned char)c), then '-' folded to ' '
Normalize(c) ==
    LET lower == IF c \in 65..90 THEN c + 32 ELSE c
    IN  IF lower = 45 THEN 32 ELSE lower

IsStrong(c) == c \in {46, 33, 63, 58}
IsWeak(c) == c \in {44, 59}

\* while (i < len && (s[i] == ' ' || s[i] == '-')) i++;
RECURSIVE SkipSeparators(_, _)
SkipSeparators(s, i) ==
    IF i < Len(s) /\ (At(s, i) = 32 \/ At(s, i) = 45)
    THEN SkipSeparators(s, i + 1)
    ELSE i

(***************************************************************************)
(* Fuzzy compare: the loop that walks result (a) and g_prev_result (b).     *)
(***************************************************************************)
\* the walk that counts a run of separators as soon as both texts have one
RECURSIVE PrefixMatchCountsRun(_, _, _, _, _)
PrefixMatchCountsRun(a, b, ia, ib, common) ==
    IF ia < Len(a) /\ ib < Len(b)
    THEN LET ca == Normalize(At(a, ia))
             cb == Normalize(At(b, ib))
         IN  IF ca = 32 /\ cb = 32
             THEN PrefixMatchCountsRun(a, b, SkipSeparators(a, ia + 1),
                                       SkipSeparators(b, ib + 1),
                                       SkipSeparators(a, ia + 1))
             ELSE IF ca # cb
                  THEN common
                  ELSE PrefixMatchCountsRun(a, b, ia + 1, ib + 1, ia + 1)
    ELSE common

RECURSIVE PrefixMatch(_, _, _, _, _)
PrefixMatch(a, b, ia, ib, common) ==
    IF ia < Len(a) /\ ib < Len(b)
    THEN LET ca == Normalize(At(a, ia))
             cb == Normalize(At(b, ib))
         IN  IF ca = 32 /\ cb = 32
             THEN PrefixMatch(a, b, SkipSeparators(a, ia + 1),
                              SkipSeparators(b, ib + 1), ia)
             ELSE IF ca # cb
                  THEN common
                  ELSE PrefixMatch(a, b, ia + 1, ib + 1, ia + 1)
    ELSE common

\* first i in [from, len - 1) with a strong terminator at i and ' ' at i + 1:
\* the index after that space, or -1
RECURSIVE SentenceStart(_, _)
SentenceStart(s, i) ==
    IF i < Len(s) - 1
    THEN IF IsStrong(At(s, i)) /\ At(s, i + 1) = 32
         THEN i + 2
         ELSE SentenceStart(s, i + 1)
    ELSE -1

\* the resync that adopts the restarted match whatever its length
ResyncAnyLength(a, b, common) ==
    IF common < Len(a) /\ common < Len(b)
    THEN LET sb_a == SentenceStart(a, common)
             sb_b == IF sb_a >= 0 THEN SentenceStart(b, common) ELSE -1
         IN  IF sb_a >= 0 /\ sb_b >= 0 /\ sb_a < Len(a) /\ sb_b < Len(b)
             THEN LET sync_common == PrefixMatch(a, b, sb_a, sb_b, sb_a)
                  IN  IF sync_common > common THEN sync_common ELSE common
             ELSE common
    ELSE common

\* Sentence-boundary resync: the value of common after the resync block
Resync(a, b, common) ==
    IF common < Len(a) /\ common < Len(b)
    THEN LET sb_a == SentenceStart(a, common)
             sb_b == IF sb_a >= 0 THEN SentenceStart(b, common) ELSE -1
         IN  IF sb_a >= 0 /\ sb_b >= 0 /\ sb_a < Len(a) /\ sb_b < Len(b)
             THEN LET sync_common == PrefixMatch(a, b, sb_a, sb_b, sb_a)
                  IN  IF sync_common - sb_a >= RESYNC_MIN_MATCH
                         /\ sync_common > common
                      THEN sync_common
                      ELSE common
             ELSE common
    ELSE common

\* common as the commit selection sees it
FuzzyCommon(result, prev) == Resync(result, prev, PrefixMatch(result, prev, 0, 0, 0))

(***************************************************************************)
(* Commit selection: the backward scan for (i = common - 1; i > stable; i--)*)
(***************************************************************************)
RECURSIVE ScanBoundary(_, _, _, _, _)
ScanBoundary(result, common, stable, i, best_comma) ==
    IF i > stable
    THEN LET c == At(result, i)
             skip == i + 1 < common /\ At(result, i + 1) # 32
             b0 == i + 1
             boundary == IF b0 < Len(result) /\ At(result, b0) = 32
                         THEN b0 + 1 ELSE b0
         IN  IF (IsStrong(c) \/ IsWeak(c)) /\ ~skip
             THEN IF IsStrong(c)
                  THEN [new_stable |-> boundary, best_comma |-> best_comma]
                  ELSE ScanBoundary(result, common, stable, i - 1,
                         IF best_comma < 0
                            /\ boundary - stable >= WEAK_MIN_BEFORE
                            /\ common - boundary >= WEAK_MIN_AFTER
                         THEN boundary ELSE best_comma)
             ELSE ScanBoundary(result, common, stable, i - 1, best_comma)
    ELSE [new_stable |-> stable, best_comma |-> best_comma]

\* the selection that scans the whole text of the pass, aligned or not
SelectCommitInWholeText(result, common, stable) ==
    LET scan == ScanBoundary(result, Len(result), stable, Len(result) - 1, -1)
    IN  IF scan.new_stable = stable /\ scan.best_comma > stable
        THEN scan.best_comma
        ELSE scan.new_stable

\* new_stable after the scan and the weak-boundary fallback
SelectCommit(result, common, stable) ==
    LET scan == ScanBoundary(result, common, stable, common - 1, -1)
    IN  IF scan.new_stable = stable /\ scan.best_comma > stable
        THEN scan.best_comma
        ELSE scan.new_stable

(***************************************************************************)
(* Window advance.                                                          *)
(***************************************************************************)
\* for (t = 0; t < ts_count; t++) if (byte_offset < new_stable) last_ms = audio_ms; else break;
\* the loop that keeps the greatest audio_ms it meets
RECURSIVE LastMsGreatest(_, _, _, _)
LastMsGreatest(timestamps, new_stable, t, last_ms) ==
    IF t <= Len(timestamps) /\ timestamps[t].byte_offset < new_stable
    THEN LastMsGreatest(timestamps, new_stable, t + 1,
                        IF timestamps[t].audio_ms > last_ms
                        THEN timestamps[t].audio_ms ELSE last_ms)
    ELSE last_ms

RECURSIVE LastMs(_, _, _, _)
LastMs(timestamps, new_stable, t, last_ms) ==
    IF t <= Len(timestamps) /\ timestamps[t].byte_offset < new_stable
    THEN LastMs(timestamps, new_stable, t + 1, timestamps[t].audio_ms)
    ELSE last_ms

Advance(timestamps, new_stable, result_len, window_samples) ==
    IF Len(timestamps) > 0
    THEN MsToSamples(LastMs(timestamps, new_stable, 1, 0))
    ELSE IF result_len > 0 /\ window_samples > 0
         THEN CDiv(window_samples * new_stable, result_len)
         ELSE 0

(***************************************************************************)
(* What the backend can answer.  A pass result is NoResult (the request     *)
(* failed: asr_transcribe_stream returned NULL) or an AsrResult with its    *)
(* text and its timestamps (byte_offset, audio_ms), both parsed with atoi   *)
(* from the response.                                                       *)
(***************************************************************************)
NoResult == [failed |-> TRUE, text |-> << >>, timestamps |-> << >>]
AsrResult(text, timestamps) == [failed |-> FALSE, text |-> text, timestamps |-> timestamps]
Ts(byte_offset, audio_ms) == [byte_offset |-> byte_offset, audio_ms |-> audio_ms]

\* "Hello there."
HelloThere == <<72, 101, 108, 108, 111, 32, 116, 104, 101, 114, 101, 46>>
\* "Hello there. And more"
HelloThereAndMore == <<72, 101, 108, 108, 111, 32, 116, 104, 101, 114, 101, 46, 32, 65, 110, 100, 32, 109, 111, 114, 101>>
\* "Hello there. And " (the text ends with a space)
HelloThereAndSpace == <<72, 101, 108, 108, 111, 32, 116, 104, 101, 114, 101, 46, 32, 65, 110, 100, 32>>
\* "xyz"
Xyz == <<120, 121, 122>>

\* audio_ms not monotonic in byte_offset
TsNonMonotonic == << Ts(0, 2500), Ts(6, 2000), Ts(13, 4000) >>
\* audio_ms falling while byte_offset rises
TsReverseSorted == << Ts(0, 5000), Ts(6, 3000), Ts(13, 1000) >>
\* audio_ms beyond the end of the window
TsBeyondWindow == << Ts(0, 0), Ts(6, 9000) >>
\* a negative audio_ms
TsNegative == << Ts(0, -1000) >>
\* the tokens of "abc. q", one per word with the time its audio starts at: the
\* first word starts with the window
TsWordStarts == << Ts(0, 0), Ts(5, 900) >>
\* byte_offset out of order: a token past the cut comes before one within it
TsUnsorted == << Ts(0, 1000), Ts(13, 3000), Ts(6, 2000) >>

\* "abc", "qrs", and "abc. q": a sentence and the start of the next one
Abc == <<97, 98, 99>>
Qrs == <<113, 114, 115>>
AbcAndMore == <<97, 98, 99, 46, 32, 113>>

\* "The cat sat", "The cat sat on the mat." and "on the mat. It was red."
TheCatSat == <<84, 104, 101, 32, 99, 97, 116, 32, 115, 97, 116>>
TheCatSatOnTheMat ==
    <<84, 104, 101, 32, 99, 97, 116, 32, 115, 97, 116, 32, 111, 110, 32,
      116, 104, 101, 32, 109, 97, 116, 46>>
OnTheMatItWasRed ==
    <<111, 110, 32, 116, 104, 101, 32, 109, 97, 116, 46, 32, 73, 116, 32,
      119, 97, 115, 32, 114, 101, 100, 46>>

\* the answers of a run of unrelated words and of a text that grows and is
\* then cut at its front
WordResults ==
    { NoResult,
      AsrResult(TheCatSat, << >>),
      AsrResult(TheCatSatOnTheMat, << >>),
      AsrResult(OnTheMatItWasRed, << >>),
      AsrResult(Abc, << >>),
      AsrResult(Xyz, << >>),
      AsrResult(Qrs, << >>),
      AsrResult(AbcAndMore, << >>),
      AsrResult(AbcAndMore, TsWordStarts) }

Results ==
    { NoResult,
      AsrResult(<< >>, << >>),
      AsrResult(HelloThere, << >>),
      AsrResult(HelloThereAndMore, << >>),
      AsrResult(HelloThereAndMore, TsNonMonotonic),
      AsrResult(HelloThereAndMore, TsReverseSorted),
      AsrResult(HelloThereAndMore, TsNegative),
      AsrResult(HelloThereAndMore, TsUnsorted),
      AsrResult(HelloThereAndSpace, TsBeyondWindow),
      AsrResult(Xyz, << >>) }

(***************************************************************************)
(* State.                                                                   *)
(***************************************************************************)
VARIABLES
    g_is_recording,             \* a recording is running
    g_recording_samples,        \* samples captured in this recording
    g_committed_samples,        \* audio offset past the committed sentences
    g_window_samples,           \* samples of the last transcription window
    g_last_transcribe_samples,  \* g_recording_samples at the last kick
    g_transcribing,             \* a pass is in flight
    g_want_final,               \* a final pass was asked for while one was in flight
    g_transcribe_thread,        \* the request of the saved thread handle, 0 for NULL
    g_prev_result,              \* the retained tail
    g_stable_len,
    g_common0_unconfirmed,      \* the divergence guard
    g_asr_prompt,               \* prompt bias of the next request
    g_finalized_text,           \* the committed text
    g_drill_mode,               \* pronunciation drill mode
    queue,                      \* WM_TRANSCRIBE_DONE messages posted and not yet dispatched
    workers,                    \* the requests whose worker thread is still running
    requests,                   \* every request issued to the backend, in order
    session,                    \* number of recordings started
    backend,                    \* which answers the backend gives in this run
    g_audio_samples,            \* samples held in the circular buffer of the speech detector
    g_audio_write_pos,          \* where the circular buffer is written next
    g_recording_buffer,         \* the recording, one entry per CaptureChunk samples
    captured,                   \* buffers the capture thread delivered in this recording
    prior,                      \* what the last non-final pass with text came to
    probe,                      \* the texts handed to the fuzzy compare on its own
    g_chat_log,                 \* the bytes of the chat buffer, up to the last one written
    g_chat_len,                 \* length of the chat text
    g_chat_len_before_interim,  \* where the interim line starts, -1 for none
    g_token_chat_anchor,        \* g_chat_len before the first token of a pass, -1 for none
    g_token_buf,                \* the tokens streamed by the pass in flight
    streaming,                  \* passes started, and whether a worker is streaming tokens
    appended,                   \* the [You] lines and responses handed to chat_append
    sim,                        \* the locals of the harness simulation loop
    drill,                      \* the drill state, the text last checked and what came back
    conv,                       \* a window advance on its own: the timestamp and the offsets
    last                        \* the step just taken: what ran and what it handed to the host

vars == << g_is_recording, g_recording_samples, g_committed_samples, g_window_samples,
           g_last_transcribe_samples, g_transcribing, g_want_final, g_transcribe_thread,
           g_prev_result, g_stable_len, g_common0_unconfirmed, g_asr_prompt,
           g_finalized_text, g_drill_mode, queue, workers, requests, session, backend,
           g_audio_samples, g_audio_write_pos, g_recording_buffer, captured,
           prior, probe, g_chat_log, g_chat_len, g_chat_len_before_interim,
           g_token_chat_anchor, g_token_buf, streaming, appended, sim, drill,
           conv, last >>

\* the chat window
chat == << g_chat_log, g_chat_len, g_chat_len_before_interim, g_token_chat_anchor,
           g_token_buf, streaming, appended >>

\* everything but the chat window and the record of the last step
recorder == << g_is_recording, g_recording_samples, g_committed_samples,
               g_window_samples, g_last_transcribe_samples, g_transcribing,
               g_want_final, g_transcribe_thread, g_prev_result, g_stable_len,
               g_common0_unconfirmed, g_asr_prompt, g_finalized_text, g_drill_mode,
               queue, workers, requests, session, backend, g_audio_samples,
               g_audio_write_pos, g_recording_buffer, captured, prior, probe >>

\* the harness is not running
NoSim == [pc |-> "off"]

\* no sentence bank is loaded
NoDrill == [pc |-> "off"]

\* no window advance is looked at on its own
NoConv == [pc |-> "off"]

\* the chat window of a program that has shown nothing yet
ChatEmpty ==
    /\ g_chat_log = << >>
    /\ g_chat_len = 0
    /\ g_chat_len_before_interim = -1
    /\ g_token_chat_anchor = -1
    /\ g_token_buf = << >>
    /\ streaming = [passes |-> 0, running |-> FALSE]
    /\ appended = << >>

\* the empty text and every text of at most MaxTextLen bytes that starts with the
\* letter 'a' and goes on with bytes of 'a', '.' and ' '
Alphabet == {97, 46, 32}
ShortTexts ==
    {<< >>} \cup UNION {{<<97>> \o t : t \in [1..n -> Alphabet]} : n \in 0..(MaxTextLen - 1)}

\* n letters 'a'
Fill(n) == [i \in 1..n |-> 97]

\* Clause texts: a run of letters, a comma with or without a space after it,
\* possibly two letters and a semicolon, a second run of letters, and then nothing,
\* a full stop, or a full stop and one more letter.  The comma is at byte 5, 27, 28
\* or 35; the second run has 14, 15 or 19 letters.
ClauseTexts ==
    { Fill(p) \o w \o m \o Fill(r) \o e :
        p \in {5, 27, 28, 35},
        w \in {<<44, 32>>, <<44>>},
        m \in {<< >>, <<97, 97, 59, 32>>},
        r \in {14, 15, 19},
        e \in {<< >>, <<46>>, <<46, 97>>} }

\* Texts for the fuzzy compare on its own: every text of at most MaxProbeLen bytes
\* of 'a', 'A', '-' and ' ', the two spellings "co-operate" and "co operate", and
\* two-sentence texts whose second sentence is 20 letters: "b. a..a" and "c. a..a",
\* the latter also as "C. a..a", "c.  a..a" (two spaces) and "c.-a..a".
CoOperateHyphen == <<99, 111, 45, 111, 112, 101, 114, 97, 116, 101>>
CoOperateSpace == <<99, 111, 32, 111, 112, 101, 114, 97, 116, 101>>
ProbeTexts ==
    UNION {[1..n -> {97, 65, 45, 32}] : n \in 0..MaxProbeLen}
    \cup { CoOperateHyphen, CoOperateSpace,
           <<98, 46, 32>> \o Fill(RESYNC_MIN_MATCH),
           <<99, 46, 32>> \o Fill(RESYNC_MIN_MATCH),
           <<67, 46, 32>> \o Fill(RESYNC_MIN_MATCH),
           <<99, 46, 32, 32>> \o Fill(RESYNC_MIN_MATCH),
           <<99, 46, 45>> \o Fill(RESYNC_MIN_MATCH),
           <<98, 46, 32>> \o Fill(RESYNC_MIN_MATCH - 1),
           <<98, 46, 32, 100, 46, 32>> \o Fill(RESYNC_MIN_MATCH),
           Fill(RESYNC_MIN_MATCH) \o <<46, 32>> }

\* the short texts, and texts that differ in their first sentence and go on with
\* the same RESYNC_MIN_MATCH letters, or with one letter less
AlignTexts ==
    ShortTexts
    \cup { <<98, 46, 32>> \o Fill(RESYNC_MIN_MATCH),
           <<99, 46, 32>> \o Fill(RESYNC_MIN_MATCH),
           <<99, 46, 32>> \o Fill(RESYNC_MIN_MATCH - 1),
           <<99, 46, 32>> \o Fill(RESYNC_MIN_MATCH) \o <<46>>,
           <<99, 46, 32>> \o Fill(RESYNC_MIN_MATCH) \o <<46, 32, 97>> }

\* the answers a request can get in this run
Answers ==
    IF backend = "phrases"
    THEN Results
    ELSE IF backend = "words"
         THEN WordResults
         ELSE IF backend = "clauses"
              THEN {AsrResult(t, << >>) : t \in ClauseTexts}
              ELSE IF backend = "silent"
                   THEN {NoResult}
                   ELSE IF backend = "sentences"
                        THEN {AsrResult(t, << >>) : t \in AlignTexts}
                        ELSE {AsrResult(t, << >>) : t \in ShortTexts}

\* a run of the phrase backend answers MaxPasses passes in recordings of MaxChunks
\* buffers; the runs that follow one recording through its passes go twice as far
PassLimit == IF backend = "phrases" THEN MaxPasses ELSE 2 * MaxPasses
ChunkLimit == IF backend = "phrases" THEN MaxChunks ELSE 2 * MaxChunks

\* sizes of what the capture thread delivers in one step, and whether the speech
\* detector finds a speech block ended at a tick: the runs that follow the
\* recording to its capacity take long deliveries and let blocks end
Deliveries ==
    IF backend = "silent"
    THEN {MAX_AUDIO_SAMPLES \div 4, 3 * (MAX_AUDIO_SAMPLES \div 8)}
    ELSE {CaptureChunk}

BlockEnds == IF backend = "silent" THEN BOOLEAN ELSE {FALSE}

\* no text is under the fuzzy compare on its own
NoProbe == [current |-> << >>, previous |-> << >>, common |-> -1]

\* The state the handlers of the UI thread work on, as one record; out collects the
\* fragments a handler hands to the host (llm_send/pipe_send and chat_append("You")),
\* promoted counts the short-tail promotions it posts.
State ==
    [ is_recording |-> g_is_recording,
      recording_samples |-> g_recording_samples,
      committed_samples |-> g_committed_samples,
      window_samples |-> g_window_samples,
      last_transcribe_samples |-> g_last_transcribe_samples,
      transcribing |-> g_transcribing,
      want_final |-> g_want_final,
      transcribe_thread |-> g_transcribe_thread,
      prev_result |-> g_prev_result,
      stable_len |-> g_stable_len,
      common0_unconfirmed |-> g_common0_unconfirmed,
      asr_prompt |-> g_asr_prompt,
      finalized_text |-> g_finalized_text,
      drill_mode |-> g_drill_mode,
      queue |-> queue,
      workers |-> workers,
      requests |-> requests,
      session |-> session,
      audio_samples |-> g_audio_samples,
      audio_write_pos |-> g_audio_write_pos,
      recording_buffer |-> g_recording_buffer,
      captured |-> captured,
      prior |-> prior,
      out |-> << >>,
      promoted |-> 0 ]

\* The handler is over: its result becomes the next state.
Becomes(s) ==
    /\ Len(s.requests) <= PassLimit + 1
    /\ g_is_recording' = s.is_recording
    /\ g_recording_samples' = s.recording_samples
    /\ g_committed_samples' = s.committed_samples
    /\ g_window_samples' = s.window_samples
    /\ g_last_transcribe_samples' = s.last_transcribe_samples
    /\ g_transcribing' = s.transcribing
    /\ g_want_final' = s.want_final
    /\ g_transcribe_thread' = s.transcribe_thread
    /\ g_prev_result' = s.prev_result
    /\ g_stable_len' = s.stable_len
    /\ g_common0_unconfirmed' = s.common0_unconfirmed
    /\ g_asr_prompt' = s.asr_prompt
    /\ g_finalized_text' = s.finalized_text
    /\ g_drill_mode' = s.drill_mode
    /\ queue' = s.queue
    /\ workers' = s.workers
    /\ requests' = s.requests
    /\ session' = s.session
    /\ backend' = backend
    /\ g_audio_samples' = s.audio_samples
    /\ g_audio_write_pos' = s.audio_write_pos
    /\ g_recording_buffer' = s.recording_buffer
    /\ captured' = s.captured
    /\ UNCHANGED << chat, sim, drill, conv >>
    /\ prior' = s.prior
    /\ probe' = probe

\* What a pass comes to in WM_TRANSCRIBE_DONE: a non-final pass with text, outside
\* drill mode, commits ("committed"), fully diverges from the retained text
\* ("diverged": common == 0 && g_prev_result_len > 0 && g_stable_len == 0) or neither
\* ("aligned"); any other pass leaves the record as it is.
PassClass(s, pass) ==
    LET result == pass.tr.text
        common == FuzzyCommon(result, s.prev_result)
    IN  IF s.drill_mode \/ pass.is_final \/ Len(result) = 0
        THEN s.prior
        ELSE IF SelectCommit(result, common, s.stable_len) > s.stable_len
             THEN "committed"
             ELSE IF common = 0 /\ Len(s.prev_result) > 0 /\ s.stable_len = 0
                  THEN "diverged"
                  ELSE "aligned"

NoPass == [is_final |-> FALSE, tr |-> NoResult, request |-> -1]

\* what a step leaves in last
Step(op, pass, s) ==
    [ op |-> op,
      pass |-> pass,
      prev |-> g_prev_result,
      out |-> s.out,
      issued |-> Len(s.requests) - Len(requests),
      promoted |-> s.promoted ]

Init ==
    /\ g_is_recording = FALSE
    /\ g_recording_samples = 0
    /\ g_committed_samples = 0
    /\ g_window_samples = 0
    /\ g_last_transcribe_samples = 0
    /\ g_transcribing = FALSE
    /\ g_want_final = FALSE
    /\ g_transcribe_thread = 0
    /\ g_prev_result = << >>
    /\ g_stable_len = 0
    /\ g_common0_unconfirmed = FALSE
    /\ g_asr_prompt = << >>
    /\ g_finalized_text = << >>
    /\ g_drill_mode = FALSE
    /\ queue = << >>
    /\ workers = {}
    /\ requests = << >>
    /\ session = 0
    /\ backend = "phrases"
    /\ g_audio_samples = 0
    /\ g_audio_write_pos = 0
    /\ g_recording_buffer = << >>
    /\ captured = 0
    /\ ChatEmpty
    /\ sim = NoSim
    /\ drill = NoDrill
    /\ conv = NoConv
    /\ prior = "none"
    /\ probe = NoProbe
    /\ last = [op |-> "init", pass |-> NoPass, prev |-> << >>, out |-> << >>,
               issued |-> 0, promoted |-> 0]

(***************************************************************************)
(* asr_kick_retranscribe(is_final).  Allocation and CreateThread failures   *)
(* are left out.                                                            *)
(***************************************************************************)
PromotedPass(text) ==
    [is_final |-> TRUE, tr |-> AsrResult(text, << >>), request |-> 0]

\* g_transcribing is set: only remember that a final pass is wanted
KickBusy(s, is_final) == [s EXCEPT !.want_final = IF is_final THEN TRUE ELSE @]

\* fewer than RETRANSCRIBE_MIN_SAMPLES to send: a final kick promotes the last
\* interim (posted to the own queue), any other kick does nothing
KickShort(s, is_final) ==
    IF is_final /\ Len(s.prev_result) > 0
    THEN [s EXCEPT !.want_final = FALSE,
                   !.queue = Append(@, PromotedPass(s.prev_result)),
                   !.promoted = @ + 1]
    ELSE [s EXCEPT !.want_final = FALSE]

\* the window from the committed offset to the capture position goes to a worker
KickRequest(s, is_final) ==
    LET total == s.recording_samples
        start == s.committed_samples
        id == Len(s.requests) + 1
    IN  [s EXCEPT !.want_final = FALSE,
                  !.window_samples = total - start,
                  !.last_transcribe_samples = total,
                  !.transcribing = TRUE,
                  !.transcribe_thread = id,
                  !.workers = @ \cup {id},
                  !.requests = Append(@, [session |-> s.session,
                                          is_final |-> is_final,
                                          start |-> start,
                                          n_samples |-> total - start])]

\* asr_kick_retranscribe without its g_transcribing test
KickWhileBusy(s, is_final) ==
    IF s.recording_samples - s.committed_samples < RETRANSCRIBE_MIN_SAMPLES
    THEN KickShort(s, is_final)
    ELSE KickRequest(s, is_final)

\* asr_kick_retranscribe without its RETRANSCRIBE_MIN_SAMPLES test
KickNoMinimum(s, is_final) ==
    IF s.transcribing
    THEN KickBusy(s, is_final)
    ELSE KickRequest(s, is_final)

\* asr_kick_retranscribe that drops the last interim of a short final kick
KickDropsTail(s, is_final) ==
    IF s.transcribing
    THEN KickBusy(s, is_final)
    ELSE IF s.recording_samples - s.committed_samples < RETRANSCRIBE_MIN_SAMPLES
         THEN [s EXCEPT !.want_final = FALSE]
         ELSE KickRequest(s, is_final)

Kick(s, is_final) ==
    IF s.transcribing
    THEN KickBusy(s, is_final)
    ELSE IF s.recording_samples - s.committed_samples < RETRANSCRIBE_MIN_SAMPLES
         THEN KickShort(s, is_final)
         ELSE KickRequest(s, is_final)

(***************************************************************************)
(* handle_transcribe_result(text): append to the finalized text and hand    *)
(* the fragment to the host.                                                *)
(***************************************************************************)
\* handle_transcribe_result that copies the text over the finalized text
HandleTranscribeResultOverwrite(s, text) ==
    IF Len(text) > 0
    THEN [s EXCEPT !.finalized_text = Truncate(text, FINALIZED_SIZE),
                   !.out = Append(@, text)]
    ELSE s

HandleTranscribeResult(s, text) ==
    IF Len(text) > 0
    THEN LET f == s.finalized_text
             sep == IF Len(f) > 0 /\ f[Len(f)] # 32 /\ Len(f) < FINALIZED_SIZE - 1
                    THEN Append(f, 32) ELSE f
             space_left == FINALIZED_SIZE - Len(sep) - 1
             text_len == Min(Len(text), space_left)
         IN  [s EXCEPT !.finalized_text = sep \o Slice(text, 0, text_len),
                       !.out = Append(@, text)]
    ELSE s

(***************************************************************************)
(* WM_TRANSCRIBE_DONE, sentence stability detection of a non-final pass     *)
(* with text: fuzzy compare, commit selection, commit and window advance,   *)
(* tail retention, divergence guard.                                        *)
(***************************************************************************)
\* the committed offset without the clamp
NoClamp(s, advanced) == advanced

\* if (g_committed_samples > g_last_transcribe_samples)
\*     g_committed_samples = g_last_transcribe_samples;
ClampToKick(s, advanced) ==
    IF advanced > s.last_transcribe_samples
    THEN s.last_transcribe_samples
    ELSE advanced

\* the commit that retains the whole text of the pass, not only what follows the cut
CommitStableKeepsAll(s, tr, new_stable) ==
    LET result == tr.text
        slen == Min(new_stable - s.stable_len, COMMIT_BUF_SIZE - 1)
        sentence == StripTrailingSpaces(Slice(result, s.stable_len, s.stable_len + slen))
        shown == IF Len(sentence) > 0
                 THEN [HandleTranscribeResult(s, sentence)
                         EXCEPT !.asr_prompt = Truncate(sentence, ASR_PROMPT_SIZE)]
                 ELSE s
        advance == Advance(tr.timestamps, new_stable, Len(result), s.window_samples)
    IN  [shown EXCEPT
           !.committed_samples = ClampToKick(s, s.committed_samples + advance),
           !.stable_len = 0,
           !.prev_result = Truncate(result, PREV_RESULT_SIZE)]

\* the commit that moves the floor to the cut and retains the whole text
CommitStableMovesFloor(s, tr, new_stable) ==
    LET result == tr.text
        slen == Min(new_stable - s.stable_len, COMMIT_BUF_SIZE - 1)
        sentence == StripTrailingSpaces(Slice(result, s.stable_len, s.stable_len + slen))
        shown == IF Len(sentence) > 0
                 THEN [HandleTranscribeResult(s, sentence)
                         EXCEPT !.asr_prompt = Truncate(sentence, ASR_PROMPT_SIZE)]
                 ELSE s
    IN  [shown EXCEPT !.stable_len = new_stable,
                      !.prev_result = Truncate(result, PREV_RESULT_SIZE)]

CommitStable(s, tr, new_stable) ==
    LET result == tr.text
        slen == Min(new_stable - s.stable_len, COMMIT_BUF_SIZE - 1)
        sentence == StripTrailingSpaces(Slice(result, s.stable_len, s.stable_len + slen))
        shown == IF Len(sentence) > 0
                 THEN [HandleTranscribeResult(s, sentence)
                         EXCEPT !.asr_prompt = Truncate(sentence, ASR_PROMPT_SIZE)]
                 ELSE s
        advance == Advance(tr.timestamps, new_stable, Len(result), s.window_samples)
        advanced == s.committed_samples + advance
        tail_len == Len(result) - new_stable
    IN  [shown EXCEPT
           !.committed_samples = ClampToKick(s, advanced),
           !.stable_len = 0,
           !.prev_result = IF tail_len > 0 /\ tail_len < PREV_RESULT_SIZE
                           THEN Slice(result, new_stable, Len(result))
                           ELSE << >>]

\* the retention without the divergence guard
KeepWithoutGuard(s, result, common) ==
    [s EXCEPT !.common0_unconfirmed = IF common > 0 THEN FALSE ELSE @,
              !.prev_result = Truncate(result, PREV_RESULT_SIZE)]

KeepForNextCompare(s, result, common) ==
    LET is_full_diverge == common = 0 /\ Len(s.prev_result) > 0 /\ s.stable_len = 0
    IN  IF is_full_diverge /\ ~s.common0_unconfirmed
        THEN [s EXCEPT !.common0_unconfirmed = TRUE]
        ELSE [s EXCEPT !.common0_unconfirmed = IF common > 0 THEN FALSE ELSE @,
                       !.prev_result = Truncate(result, PREV_RESULT_SIZE)]

Reconcile(s, tr) ==
    LET result == tr.text
        common == FuzzyCommon(result, s.prev_result)
        new_stable == SelectCommit(result, common, s.stable_len)
    IN  IF new_stable > s.stable_len
        THEN CommitStable(s, tr, new_stable)
        ELSE KeepForNextCompare(s, result, common)

(***************************************************************************)
(* WM_TRANSCRIBE_DONE, final branch: force-commit everything past           *)
(* g_stable_len.                                                            *)
(***************************************************************************)
\* the final branch with the boundary gating of a non-final pass
CommitFinalGated(s, result) == Reconcile(s, AsrResult(result, << >>))

CommitFinal(s, result) ==
    IF Len(result) > s.stable_len
    THEN LET tail == StripTrailingSpaces(Slice(result, s.stable_len, Len(result)))
         IN  IF Len(tail) > 0
             THEN HandleTranscribeResult(s, Truncate(tail, COMMIT_BUF_SIZE))
             ELSE s
    ELSE IF Len(result) > 0 /\ s.stable_len = 0
         THEN HandleTranscribeResult(s, result)
         ELSE s

(***************************************************************************)
(* The WM_TRANSCRIBE_DONE handler (the chat log and the statistics are not  *)
(* part of the state; drill_check works on the drill state only).           *)
(***************************************************************************)
\* the handler that reconciles a non-final pass without text like any other
TranscribeDoneReconcilesEmpty(s, pass) ==
    LET is_final == pass.is_final
        result == pass.tr.text
        done == [s EXCEPT !.transcribing = FALSE]
        deferred(t) == IF ~is_final /\ t.want_final THEN Kick(t, TRUE) ELSE t
    IN  IF s.drill_mode
        THEN IF is_final /\ Len(result) > 0 THEN done ELSE deferred(done)
        ELSE IF is_final /\ Len(result) > 0
             THEN deferred(CommitFinal(done, result))
             ELSE IF ~is_final
                  THEN deferred(Reconcile(done, pass.tr))
                  ELSE deferred(done)

\* the handler that asks again when a final pass comes back without text
TranscribeDoneRetriesFinal(s, pass) ==
    LET is_final == pass.is_final
        result == pass.tr.text
        done == [s EXCEPT !.transcribing = FALSE]
        deferred(t) == IF ~is_final /\ t.want_final THEN Kick(t, TRUE) ELSE t
    IN  IF s.drill_mode
        THEN IF is_final /\ Len(result) > 0 THEN done ELSE deferred(done)
        ELSE IF is_final /\ Len(result) > 0
             THEN deferred(CommitFinal(done, result))
             ELSE IF Len(result) > 0
                  THEN deferred(Reconcile(done, pass.tr))
                  ELSE IF is_final THEN Kick(done, TRUE) ELSE deferred(done)

TranscribeDone(s, pass) ==
    LET is_final == pass.is_final
        result == pass.tr.text
        done == [s EXCEPT !.transcribing = FALSE]
        deferred(t) == IF ~is_final /\ t.want_final THEN Kick(t, TRUE) ELSE t
    IN  IF s.drill_mode
        THEN IF is_final /\ Len(result) > 0 THEN done ELSE deferred(done)
        ELSE IF is_final /\ Len(result) > 0
             THEN deferred(CommitFinal(done, result))
             ELSE IF Len(result) > 0
                  THEN deferred(Reconcile(done, pass.tr))
                  ELSE deferred(done)

(***************************************************************************)
(* test_sim, the offline harness: what one iteration of its loop does with   *)
(* the answer of its request.  Its fuzzy compare, resync and commit          *)
(* selection are the text of the handler's with the g_ prefixes dropped, so  *)
(* FuzzyCommon and SelectCommit stand for them; Advance stands for its       *)
(* window advance.  The harness prints its fragments; out collects them.     *)
(***************************************************************************)
\* the locals of test_sim that mirror the engine state, with the values the
\* engine has
SimState ==
    [ prev_result |-> g_prev_result,
      stable_len |-> g_stable_len,
      common0_unconfirmed |-> g_common0_unconfirmed,
      committed_samples |-> g_committed_samples,
      window_samples |-> g_window_samples,
      last_transcribe_samples |-> g_last_transcribe_samples,
      prompt |-> g_asr_prompt,
      out |-> << >> ]

\* if (is_final): printf("[You] %s", result + stable_len)
SimFinal(m, result) ==
    IF Len(result) > m.stable_len
    THEN [m EXCEPT !.out = << Slice(result, m.stable_len, Len(result)) >>]
    ELSE IF Len(result) > 0 /\ m.stable_len = 0
         THEN [m EXCEPT !.out = << result >>]
         ELSE m

\* --- Commit stable sentences ---, the window advance and the tail kept
SimCommit(m, tr, new_stable) ==
    LET result == tr.text
        slen == Min(new_stable - m.stable_len, COMMIT_BUF_SIZE - 1)
        sentence == StripTrailingSpaces(Slice(result, m.stable_len, m.stable_len + slen))
        advance == Advance(tr.timestamps, new_stable, Len(result), m.window_samples)
        advanced == m.committed_samples + advance
        tail_len == Len(result) - new_stable
    IN  [m EXCEPT
           !.out = IF Len(sentence) > 0 THEN << sentence >> ELSE << >>,
           !.prompt = IF Len(sentence) > 0
                      THEN Truncate(sentence, SIM_PROMPT_SIZE) ELSE @,
           !.committed_samples = IF advanced > m.last_transcribe_samples
                                 THEN m.last_transcribe_samples ELSE advanced,
           !.stable_len = 0,
           !.prev_result = IF tail_len > 0 /\ tail_len < PREV_RESULT_SIZE
                           THEN Slice(result, new_stable, Len(result))
                           ELSE << >>]

\* --- Save for next comparison ---
SimSave(m, result, common) ==
    LET is_full_diverge == common = 0 /\ Len(m.prev_result) > 0 /\ m.stable_len = 0
    IN  IF is_full_diverge /\ ~m.common0_unconfirmed
        THEN [m EXCEPT !.common0_unconfirmed = TRUE]
        ELSE [m EXCEPT !.common0_unconfirmed = IF common > 0 THEN FALSE ELSE @,
                       !.prev_result = Truncate(result, PREV_RESULT_SIZE)]

\* one iteration of the loop from the answer of asr_transcribe on
SimPass(m, is_final, tr) ==
    LET result == tr.text
        common == FuzzyCommon(result, m.prev_result)
        new_stable == SelectCommit(result, common, m.stable_len)
    IN  IF is_final
        THEN SimFinal(m, result)
        ELSE IF Len(result) = 0
             THEN m
             ELSE IF new_stable > m.stable_len
                  THEN SimCommit(m, tr, new_stable)
                  ELSE SimSave(m, result, common)

\* The capture thread hands add_audio_samples one buffer at a time; a step of
\* the model stands for the buffers delivered between two steps of the UI
\* thread.  The recording is held one entry per CaptureChunk samples, each
\* entry the number of the delivery its samples came with; the entries past
\* g_recording_samples are never read and are left out.
Cells(n) == n \div CaptureChunk

\* the recording of the given length after delivery v is stored at the entries
\* written (counted from 0)
Stored(buf, written, length, v) ==
    [i \in 1..length |-> IF i - 1 \in written THEN v ELSE buf[i]]

\* the recording written like the circular buffer, wrapping at its capacity
AddAudioSamplesWrapping(s, sample_count) ==
    LET n == Min(sample_count, MAX_AUDIO_SAMPLES - s.audio_samples)
        written == {(Cells(s.recording_samples) + p) % Cells(MAX_AUDIO_SAMPLES) :
                       p \in 0..(Cells(n) - 1)}
        length == Min(Cells(s.recording_samples + n), Cells(MAX_AUDIO_SAMPLES))
    IN  [s EXCEPT !.audio_samples = @ + n,
                  !.audio_write_pos = (@ + n) % MAX_AUDIO_SAMPLES,
                  !.recording_buffer = Stored(@, written, length, s.captured + 1),
                  !.recording_samples = Min(@ + n, MAX_AUDIO_SAMPLES),
                  !.captured = @ + 1]

\* add_audio_samples: the loop runs while the circular buffer has room, and a
\* sample is appended to the recording (g_recording_buffer[g_recording_samples++]
\* = sample) while the recording has room
AddAudioSamples(s, sample_count) ==
    LET n == Min(sample_count, MAX_AUDIO_SAMPLES - s.audio_samples)
        kept == Min(n, MAX_AUDIO_SAMPLES - s.recording_samples)
        written == {Cells(s.recording_samples) + p : p \in 0..(Cells(kept) - 1)}
        length == Cells(s.recording_samples + kept)
    IN  [s EXCEPT !.audio_samples = @ + n,
                  !.audio_write_pos = (@ + n) % MAX_AUDIO_SAMPLES,
                  !.recording_buffer = Stored(@, written, length, s.captured + 1),
                  !.recording_samples = @ + kept,
                  !.captured = @ + 1]

\* clear_audio_buffer
ClearAudioBuffer(s) ==
    [s EXCEPT !.audio_write_pos = 0, !.audio_samples = 0]

(***************************************************************************)
(* stop_recording and start_recording.                                      *)
(***************************************************************************)
StopRecording(s) ==
    LET kicked == IF s.recording_samples >= RETRANSCRIBE_MIN_SAMPLES
                  THEN Kick(s, TRUE) ELSE s
    IN  [kicked EXCEPT !.is_recording = FALSE]

\* while (PeekMessageA(.. WM_TRANSCRIBE_DONE ..)) DispatchMessage(&drain);
RECURSIVE Drain(_)
Drain(s) ==
    IF s.queue = << >>
    THEN s
    ELSE Drain(TranscribeDone([s EXCEPT !.queue = Tail(@)], Head(s.queue)))

\* posted is what the worker threads post while start_recording runs, before its
\* drain loop (within the 3 s wait for the saved thread, or just before the loop)
StartRecording(s, posted) ==
    LET reset == [ClearAudioBuffer(s) EXCEPT
                           !.finalized_text = << >>,
                           !.last_transcribe_samples = 0,
                           !.prev_result = << >>,
                           !.stable_len = 0,
                           !.common0_unconfirmed = FALSE,
                           !.committed_samples = 0,
                           !.window_samples = 0,
                           !.want_final = FALSE,
                           !.transcribe_thread = 0,
                           !.session = @ + 1,
                           !.prior = "none",
                           !.queue = @ \o posted,
                           !.workers = @ \ {m.request : m \in {posted[i] : i \in 1..Len(posted)}}]
        drained == Drain(reset)
    IN  [drained EXCEPT !.asr_prompt = << >>,
                        !.recording_samples = 0,
                        !.recording_buffer = << >>,
                        !.captured = 0,
                        !.is_recording = TRUE]

(***************************************************************************)
(* Actions.  The UI thread takes its messages with GetMessage, which hands  *)
(* out posted messages (WM_TRANSCRIBE_DONE) before input and WM_TIMER: a    *)
(* click, a key or a tick is handled only when no posted message waits.     *)
(***************************************************************************)
\* capture_thread_proc -> add_audio_samples: one buffer of CaptureChunk samples
Capture ==
    /\ g_is_recording
    /\ captured < ChunkLimit
    /\ \E sample_count \in Deliveries :
        LET s == AddAudioSamples(State, sample_count)
        IN  Becomes(s) /\ last' = Step("add_audio_samples", NoPass, s)

\* asr_transcribe_thread: the request returns and the completion is posted
WorkerPost(id, tr) == [is_final |-> requests[id].is_final, tr |-> tr, request |-> id]

WorkerDone ==
    \E id \in workers, tr \in Answers :
        /\ id <= PassLimit
        /\ LET s == [State EXCEPT !.queue = Append(@, WorkerPost(id, tr)),
                                  !.workers = @ \ {id}]
           IN  Becomes(s) /\ last' = Step("asr_transcribe_thread", NoPass, s)

\* WndProc, WM_TRANSCRIBE_DONE
Dispatch ==
    /\ queue # << >>
    /\ LET pass == Head(queue)
           s == TranscribeDone([State EXCEPT !.queue = Tail(@),
                                             !.prior = PassClass(State, pass)], pass)
       IN  Becomes(s) /\ last' = Step("WM_TRANSCRIBE_DONE", pass, s)

\* WndProc, WM_TIMER with ID_TIMER_TRANSCRIBE; pending_stop is what
\* check_vad_and_transcribe decides from the audio energy
\* the tick without its g_is_recording test
TimerTickAlways(s, pending_stop) ==
    IF pending_stop
    THEN StopRecording(s)
    ELSE IF s.recording_samples - s.last_transcribe_samples
                >= RETRANSCRIBE_INTERVAL_SAMPLES
            /\ s.recording_samples >= RETRANSCRIBE_MIN_SAMPLES
         THEN Kick(s, FALSE)
         ELSE s

\* the tick that kicks whatever the audio captured since the last kick
TimerTickNoInterval(s, pending_stop) ==
    IF ~s.is_recording
    THEN s
    ELSE IF pending_stop
         THEN StopRecording(s)
         ELSE IF s.recording_samples >= RETRANSCRIBE_MIN_SAMPLES
              THEN Kick(s, FALSE)
              ELSE s

TimerTick(s, pending_stop) ==
    IF ~s.is_recording
    THEN s
    ELSE IF pending_stop
         THEN StopRecording(s)
         ELSE IF s.recording_samples - s.last_transcribe_samples
                     >= RETRANSCRIBE_INTERVAL_SAMPLES
                 /\ s.recording_samples >= RETRANSCRIBE_MIN_SAMPLES
              THEN Kick(s, FALSE)
              ELSE s

\* check_vad_and_transcribe when it finds a speech block ended: both of its
\* branches (transcribe_block, "Block too short") clear the circular buffer
CheckVad(s, block_ended) ==
    IF s.is_recording /\ block_ended THEN ClearAudioBuffer(s) ELSE s

Timer ==
    /\ queue = << >>
    /\ \E pending_stop \in BOOLEAN, block_ended \in BlockEnds :
        LET s == TimerTick(CheckVad(State, block_ended), pending_stop)
        IN  Becomes(s) /\ last' = Step("WM_TIMER", NoPass, s)

\* WM_COMMAND ID_BTN_RECORD or the space bar, while recording
Stop ==
    /\ queue = << >>
    /\ g_is_recording
    /\ LET s == StopRecording(State)
       IN  Becomes(s) /\ last' = Step("stop_recording", NoPass, s)

\* WM_COMMAND ID_BTN_RECORD or the space bar, while not recording
Start ==
    /\ queue = << >>
    /\ ~g_is_recording
    /\ session < MaxSessions
    /\ \E posted \in {<< >>} \cup {<< WorkerPost(id, tr) >> : id \in workers \cap 1..PassLimit, tr \in Answers} :
        LET s == StartRecording(State, posted)
        IN  Becomes(s) /\ last' = Step("start_recording", NoPass, s)

\* the D key, while not recording
ToggleDrillMode ==
    /\ queue = << >>
    /\ ~g_is_recording
    /\ LET s == [State EXCEPT !.drill_mode = ~@]
       IN  Becomes(s) /\ last' = Step("drill_mode", NoPass, s)

Next ==
    \/ Capture
    \/ WorkerDone
    \/ Dispatch
    \/ Timer
    \/ Stop
    \/ Start
    \/ ToggleDrillMode

Spec == Init /\ [][Next]_vars


(***************************************************************************)
(* One non-final pass against every retained text.  The run starts in the   *)
(* recording after its first pass (issued by the tick at 3 s) came back     *)
(* with the text previous, which was retained whole (nothing to compare     *)
(* with, so no commit), and the tick at 6 s has issued the second pass.     *)
(***************************************************************************)
SelectInit ==
    /\ g_is_recording = TRUE
    /\ g_recording_samples = 2 * RETRANSCRIBE_INTERVAL_SAMPLES
    /\ g_committed_samples = 0
    /\ g_window_samples = 2 * RETRANSCRIBE_INTERVAL_SAMPLES
    /\ g_last_transcribe_samples = 2 * RETRANSCRIBE_INTERVAL_SAMPLES
    /\ g_transcribing = TRUE
    /\ g_want_final = FALSE
    /\ g_transcribe_thread = 2
    /\ g_prev_result \in ShortTexts \ {<< >>}
    /\ g_stable_len = 0
    /\ g_common0_unconfirmed = FALSE
    /\ g_asr_prompt = << >>
    /\ g_finalized_text = << >>
    /\ g_drill_mode = FALSE
    /\ queue = << >>
    /\ workers = {2}
    /\ requests = << [session |-> 1, is_final |-> FALSE, start |-> 0,
                      n_samples |-> RETRANSCRIBE_INTERVAL_SAMPLES],
                     [session |-> 1, is_final |-> FALSE, start |-> 0,
                      n_samples |-> 2 * RETRANSCRIBE_INTERVAL_SAMPLES] >>
    /\ session = 1
    /\ backend = "short texts"
    /\ g_audio_samples = g_recording_samples
    /\ g_audio_write_pos = g_recording_samples
    /\ g_recording_buffer = [i \in 1..(g_recording_samples \div CaptureChunk) |-> i]
    /\ captured = Len(g_recording_buffer)
    /\ ChatEmpty
    /\ sim = NoSim
    /\ drill = NoDrill
    /\ conv = NoConv
    /\ prior = "aligned"
    /\ probe = NoProbe
    /\ last = [op |-> "WM_TIMER", pass |-> NoPass, prev |-> g_prev_result,
               out |-> << >>, issued |-> 1, promoted |-> 0]

SelectNext ==
    \/ WorkerDone
    \/ Dispatch

SelectSpec == SelectInit /\ [][SelectNext]_vars

(***************************************************************************)
(* One non-final pass of clause texts against every retained clause text:   *)
(* the same point of the recording as in SelectInit.                        *)
(***************************************************************************)
ClauseInit ==
    /\ g_is_recording = TRUE
    /\ g_recording_samples = 2 * RETRANSCRIBE_INTERVAL_SAMPLES
    /\ g_committed_samples = 0
    /\ g_window_samples = 2 * RETRANSCRIBE_INTERVAL_SAMPLES
    /\ g_last_transcribe_samples = 2 * RETRANSCRIBE_INTERVAL_SAMPLES
    /\ g_transcribing = TRUE
    /\ g_want_final = FALSE
    /\ g_transcribe_thread = 2
    /\ g_prev_result \in ClauseTexts
    /\ g_stable_len = 0
    /\ g_common0_unconfirmed = FALSE
    /\ g_asr_prompt = << >>
    /\ g_finalized_text = << >>
    /\ g_drill_mode = FALSE
    /\ queue = << >>
    /\ workers = {2}
    /\ requests = << [session |-> 1, is_final |-> FALSE, start |-> 0,
                      n_samples |-> RETRANSCRIBE_INTERVAL_SAMPLES],
                     [session |-> 1, is_final |-> FALSE, start |-> 0,
                      n_samples |-> 2 * RETRANSCRIBE_INTERVAL_SAMPLES] >>
    /\ session = 1
    /\ backend = "clauses"
    /\ g_audio_samples = g_recording_samples
    /\ g_audio_write_pos = g_recording_samples
    /\ g_recording_buffer = [i \in 1..(g_recording_samples \div CaptureChunk) |-> i]
    /\ captured = Len(g_recording_buffer)
    /\ ChatEmpty
    /\ sim = NoSim
    /\ drill = NoDrill
    /\ conv = NoConv
    /\ prior = "aligned"
    /\ probe = NoProbe
    /\ last = [op |-> "WM_TIMER", pass |-> NoPass, prev |-> g_prev_result,
               out |-> << >>, issued |-> 1, promoted |-> 0]

ClauseSpec == ClauseInit /\ [][SelectNext]_vars

(***************************************************************************)
(* One non-final pass of the short texts and of texts whose first sentences *)
(* differ, against every such retained text: the same point of the          *)
(* recording as in SelectInit.                                              *)
(***************************************************************************)
AlignInit ==
    /\ g_is_recording = TRUE
    /\ g_recording_samples = 2 * RETRANSCRIBE_INTERVAL_SAMPLES
    /\ g_committed_samples = 0
    /\ g_window_samples = 2 * RETRANSCRIBE_INTERVAL_SAMPLES
    /\ g_last_transcribe_samples = 2 * RETRANSCRIBE_INTERVAL_SAMPLES
    /\ g_transcribing = TRUE
    /\ g_want_final = FALSE
    /\ g_transcribe_thread = 2
    /\ g_prev_result \in AlignTexts \ {<< >>}
    /\ g_stable_len = 0
    /\ g_common0_unconfirmed = FALSE
    /\ g_asr_prompt = << >>
    /\ g_finalized_text = << >>
    /\ g_drill_mode = FALSE
    /\ queue = << >>
    /\ workers = {2}
    /\ requests = << [session |-> 1, is_final |-> FALSE, start |-> 0,
                      n_samples |-> RETRANSCRIBE_INTERVAL_SAMPLES],
                     [session |-> 1, is_final |-> FALSE, start |-> 0,
                      n_samples |-> 2 * RETRANSCRIBE_INTERVAL_SAMPLES] >>
    /\ session = 1
    /\ backend = "sentences"
    /\ g_audio_samples = g_recording_samples
    /\ g_audio_write_pos = g_recording_samples
    /\ g_recording_buffer = [i \in 1..(g_recording_samples \div CaptureChunk) |-> i]
    /\ captured = Len(g_recording_buffer)
    /\ ChatEmpty
    /\ sim = NoSim
    /\ drill = NoDrill
    /\ conv = NoConv
    /\ prior = "aligned"
    /\ probe = NoProbe
    /\ last = [op |-> "WM_TIMER", pass |-> NoPass, prev |-> g_prev_result,
               out |-> << >>, issued |-> 1, promoted |-> 0]

AlignSpec == AlignInit /\ [][SelectNext]_vars

\* A recording whose second pass is in flight while a pending tail is held, with
\* the user's stop and record presses and no further audio.
DeferInit ==
    /\ g_is_recording = TRUE
    /\ g_recording_samples = 2 * RETRANSCRIBE_INTERVAL_SAMPLES
    /\ g_committed_samples = 0
    /\ g_window_samples = 2 * RETRANSCRIBE_INTERVAL_SAMPLES
    /\ g_last_transcribe_samples = 2 * RETRANSCRIBE_INTERVAL_SAMPLES
    /\ g_transcribing = TRUE
    /\ g_want_final = FALSE
    /\ g_transcribe_thread = 2
    /\ g_prev_result \in {TheCatSat, Abc}
    /\ g_stable_len = 0
    /\ g_common0_unconfirmed = FALSE
    /\ g_asr_prompt = << >>
    /\ g_finalized_text = << >>
    /\ g_drill_mode = FALSE
    /\ queue = << >>
    /\ workers = {2}
    /\ requests = << [session |-> 1, is_final |-> FALSE, start |-> 0,
                      n_samples |-> RETRANSCRIBE_INTERVAL_SAMPLES],
                     [session |-> 1, is_final |-> FALSE, start |-> 0,
                      n_samples |-> 2 * RETRANSCRIBE_INTERVAL_SAMPLES] >>
    /\ session = 1
    /\ backend = "words"
    /\ g_audio_samples = g_recording_samples
    /\ g_audio_write_pos = g_recording_samples
    /\ g_recording_buffer = [i \in 1..(g_recording_samples \div CaptureChunk) |-> i]
    /\ captured = Len(g_recording_buffer)
    /\ ChatEmpty
    /\ sim = NoSim
    /\ drill = NoDrill
    /\ conv = NoConv
    /\ prior = "aligned"
    /\ probe = NoProbe
    /\ last = [op |-> "WM_TIMER", pass |-> NoPass, prev |-> g_prev_result,
               out |-> << >>, issued |-> 1, promoted |-> 0]

DeferNext ==
    \/ WorkerDone
    \/ Dispatch
    \/ Stop
    \/ Start

\* The scheduling the code relies on: a worker thread that was created runs to its
\* PostMessage (the backend call returns or times out), and the message loop takes
\* every posted WM_TRANSCRIBE_DONE off the queue.  The second condition is weak
\* fairness of Dispatch with its enabling condition, a message in the queue,
\* written out.
DeferSpec ==
    /\ DeferInit
    /\ [][DeferNext]_vars
    /\ WF_vars(WorkerDone)
    /\ (<>[](queue # << >>) => []<><<Dispatch>>_vars)

(***************************************************************************)
(* The fuzzy compare on its own: result and g_prev_result are drawn from    *)
(* ProbeTexts and the compare (with its resync) is applied to them.         *)
(***************************************************************************)
ProbeInit ==
    /\ g_is_recording = FALSE
    /\ g_recording_samples = 0
    /\ g_committed_samples = 0
    /\ g_window_samples = 0
    /\ g_last_transcribe_samples = 0
    /\ g_transcribing = FALSE
    /\ g_want_final = FALSE
    /\ g_transcribe_thread = 0
    /\ g_prev_result = << >>
    /\ g_stable_len = 0
    /\ g_common0_unconfirmed = FALSE
    /\ g_asr_prompt = << >>
    /\ g_finalized_text = << >>
    /\ g_drill_mode = FALSE
    /\ queue = << >>
    /\ workers = {}
    /\ requests = << >>
    /\ session = 0
    /\ backend = "compare"
    /\ g_audio_samples = 0
    /\ g_audio_write_pos = 0
    /\ g_recording_buffer = << >>
    /\ captured = 0
    /\ ChatEmpty
    /\ sim = NoSim
    /\ drill = NoDrill
    /\ conv = NoConv
    /\ prior = "none"
    /\ probe \in {[current |-> c, previous |-> p, common |-> -1] :
                     c \in ProbeTexts, p \in ProbeTexts}
    /\ last = [op |-> "init", pass |-> NoPass, prev |-> << >>, out |-> << >>,
               issued |-> 0, promoted |-> 0]

Compare ==
    /\ probe.common = -1
    /\ probe' = [probe EXCEPT !.common = FuzzyCommon(probe.current, probe.previous)]
    /\ UNCHANGED << g_is_recording, g_recording_samples, g_committed_samples,
                    g_window_samples, g_last_transcribe_samples, g_transcribing,
                    g_want_final, g_transcribe_thread, g_prev_result, g_stable_len,
                    g_common0_unconfirmed, g_asr_prompt, g_finalized_text,
                    g_drill_mode, queue, workers, requests, session, backend,
                    g_audio_samples, g_audio_write_pos, g_recording_buffer, captured,
                    prior, last >>
    /\ UNCHANGED << chat, sim, drill, conv >>

ProbeNext == Compare

ProbeSpec == ProbeInit /\ [][ProbeNext]_vars

(***************************************************************************)
(* One recording followed through its passes, the backend answering with    *)
(* unrelated words.  The run starts right after start_recording.            *)
(***************************************************************************)
GuardInit ==
    /\ g_is_recording = TRUE
    /\ g_recording_samples = 0
    /\ g_committed_samples = 0
    /\ g_window_samples = 0
    /\ g_last_transcribe_samples = 0
    /\ g_transcribing = FALSE
    /\ g_want_final = FALSE
    /\ g_transcribe_thread = 0
    /\ g_prev_result = << >>
    /\ g_stable_len = 0
    /\ g_common0_unconfirmed = FALSE
    /\ g_asr_prompt = << >>
    /\ g_finalized_text = << >>
    /\ g_drill_mode = FALSE
    /\ queue = << >>
    /\ workers = {}
    /\ requests = << >>
    /\ session = 1
    /\ backend = "words"
    /\ g_audio_samples = 0
    /\ g_audio_write_pos = 0
    /\ g_recording_buffer = << >>
    /\ captured = 0
    /\ ChatEmpty
    /\ sim = NoSim
    /\ drill = NoDrill
    /\ conv = NoConv
    /\ prior = "none"
    /\ probe = NoProbe
    /\ last = [op |-> "start_recording", pass |-> NoPass, prev |-> << >>,
               out |-> << >>, issued |-> 0, promoted |-> 0]

GuardNext ==
    \/ Capture
    \/ WorkerDone
    \/ Dispatch
    \/ Timer

GuardSpec == GuardInit /\ [][GuardNext]_vars

(***************************************************************************)
(* One recording followed to the capacity of the recording buffer: the      *)
(* capture thread delivers long buffers of silence, the speech detector     *)
(* lets blocks end, and the backend answers with no text.  The run starts   *)
(* right after start_recording.                                             *)
(***************************************************************************)
LedgerInit ==
    /\ g_is_recording = TRUE
    /\ g_recording_samples = 0
    /\ g_committed_samples = 0
    /\ g_window_samples = 0
    /\ g_last_transcribe_samples = 0
    /\ g_transcribing = FALSE
    /\ g_want_final = FALSE
    /\ g_transcribe_thread = 0
    /\ g_prev_result = << >>
    /\ g_stable_len = 0
    /\ g_common0_unconfirmed = FALSE
    /\ g_asr_prompt = << >>
    /\ g_finalized_text = << >>
    /\ g_drill_mode = FALSE
    /\ queue = << >>
    /\ workers = {}
    /\ requests = << >>
    /\ session = 1
    /\ backend = "silent"
    /\ g_audio_samples = 0
    /\ g_audio_write_pos = 0
    /\ g_recording_buffer = << >>
    /\ captured = 0
    /\ ChatEmpty
    /\ sim = NoSim
    /\ drill = NoDrill
    /\ conv = NoConv
    /\ prior = "none"
    /\ probe = NoProbe
    /\ last = [op |-> "start_recording", pass |-> NoPass, prev |-> << >>, out |-> << >>,
               issued |-> 0, promoted |-> 0]

LedgerSpec == LedgerInit /\ [][GuardNext]_vars

(***************************************************************************)
(* The chat window: chat_append, the interim line of a pass, the tokens a    *)
(* pass streams, and the responses of the assistant.                         *)
(***************************************************************************)
MAX_CHAT_LEN == 16384
MaxChatPasses == 2
MaxTokenBuf == 3

\* "[role] text\r\n", as snprintf formats it
ChatLine(role, text) == <<91>> \o role \o <<93, 32>> \o text \o <<13, 10>>

RoleYou == <<89, 111, 117>>
RoleClaude == <<67, 108, 97, 117, 100, 101>>
RoleLLM == <<76, 76, 77>>
RoleInterim == <<46, 46, 46>>

\* what a pass commits, what it leaves to show, what a token carries, and what
\* the assistant answers
CommitTexts == {<<72, 105, 46>>}
InterimTexts == {<<97>>, <<97, 110, 100, 32, 109, 111, 114, 101>>}
TokenTexts == {<<97>>, <<110, 100>>}
ResponseTexts == {<<79, 75>>}

\* the chat state as the handlers see it
Chat ==
    [ log |-> g_chat_log,
      len |-> g_chat_len,
      before_interim |-> g_chat_len_before_interim,
      anchor |-> g_token_chat_anchor,
      token_buf |-> g_token_buf,
      appended |-> appended ]

\* g_chat_log[pos] = '\0': bytes never written are 0
Terminate(log, pos) ==
    [i \in 1..(IF Len(log) > pos + 1 THEN Len(log) ELSE pos + 1) |->
        IF i = pos + 1 THEN 0 ELSE IF i <= Len(log) THEN log[i] ELSE 0]

\* memcpy(g_chat_log + pos, line, line_len) and the terminator after it
CopyLine(log, pos, line) ==
    LET end == pos + Len(line) + 1
    IN  [i \in 1..(IF Len(log) > end THEN Len(log) ELSE end) |->
            IF i > pos /\ i <= pos + Len(line)
            THEN line[i - pos]
            ELSE IF i = end THEN 0 ELSE IF i <= Len(log) THEN log[i] ELSE 0]

\* the text the chat control is given: the C string at the start of the buffer
Shown(log) ==
    LET ends == {i \in 1..Len(log) : log[i] = 0}
    IN  IF ends = {}
        THEN log
        ELSE SubSeq(log, 1, (CHOOSE i \in ends : \A j \in ends : i <= j) - 1)

chat_append(c, role, text) ==
    IF text = << >>
    THEN c
    ELSE LET line == ChatLine(role, text)
         IN  IF c.len + Len(line) < MAX_CHAT_LEN - 1
             THEN [c EXCEPT !.log = CopyLine(c.log, c.len, line),
                            !.len = c.len + Len(line)]
             ELSE c

\* a line that stays: its text is recorded as handed to chat_append
AppendEntry(c, role, text) ==
    LET d == chat_append(c, role, text)
    IN  IF text = << >>
        THEN d
        ELSE [d EXCEPT !.appended = Append(@, ChatLine(role, text))]

\* if (g_chat_len_before_interim >= 0) { g_chat_len = ...; g_chat_log[g_chat_len] = 0 }
RollBack(c) ==
    IF c.before_interim >= 0
    THEN [c EXCEPT !.len = c.before_interim,
                   !.log = Terminate(c.log, c.before_interim)]
    ELSE c

\* WM_ASR_TOKEN outside drill mode
AsrToken(c, text) ==
    IF Len(text) > 0
    THEN LET anchored == [c EXCEPT !.anchor = IF @ < 0 THEN c.len ELSE @,
                                   !.token_buf = @ \o text]
             rolled == RollBack(anchored)
         IN  chat_append([rolled EXCEPT !.before_interim = anchored.anchor],
                         RoleInterim, anchored.token_buf)
    ELSE c

\* WM_TRANSCRIBE_DONE outside drill mode, as far as the chat goes: the token
\* buffer is cleared, the interim line is removed, the committed text is appended
\* as a [You] line, and a non-final pass shows the text past the commit
ChatTranscribeDone(c, is_final, commit, interim) ==
    LET cleared == [c EXCEPT !.token_buf = << >>, !.anchor = -1]
        rolled == [RollBack(cleared) EXCEPT !.before_interim = -1]
        committed == AppendEntry(rolled, RoleYou, commit)
    IN  IF ~is_final /\ interim # << >>
        THEN chat_append([committed EXCEPT !.before_interim = committed.len],
                         RoleInterim, interim)
        ELSE committed

ChatBecomes(c) ==
    /\ g_chat_log' = c.log
    /\ g_chat_len' = c.len
    /\ g_chat_len_before_interim' = c.before_interim
    /\ g_token_chat_anchor' = c.anchor
    /\ g_token_buf' = c.token_buf
    /\ appended' = c.appended
    /\ UNCHANGED << recorder, sim, drill, conv >>

\* asr_kick_retranscribe starts the worker of a pass
PassStarts ==
    /\ ~streaming.running
    /\ streaming.passes < MaxChatPasses
    /\ streaming' = [passes |-> streaming.passes + 1, running |-> TRUE]
    /\ ChatBecomes(Chat)
    /\ last' = Step("asr_kick_retranscribe", NoPass, State)

\* the worker streams a token and the window procedure takes it
TokenArrives ==
    /\ streaming.running
    /\ \E text \in TokenTexts :
          /\ Len(g_token_buf) + Len(text) <= MaxTokenBuf
          /\ ChatBecomes(AsrToken(Chat, text))
    /\ UNCHANGED streaming
    /\ last' = Step("WM_ASR_TOKEN", NoPass, State)

\* the pass completes: it commits nothing or a sentence, and a non-final pass
\* leaves nothing or a tail to show
PassCompletes ==
    /\ streaming.running
    /\ \E is_final \in BOOLEAN, commit \in {<< >>} \cup CommitTexts,
          interim \in {<< >>} \cup InterimTexts :
          ChatBecomes(ChatTranscribeDone(Chat, is_final, commit, interim))
    /\ streaming' = [streaming EXCEPT !.running = FALSE]
    /\ last' = Step("WM_TRANSCRIBE_DONE", NoPass, State)

\* the lines of role in the entries appended so far
Entries(role) ==
    {i \in 1..Len(appended) : SubSeq(appended[i], 2, 1 + Len(role)) = role}

\* WM_PIPE_RESPONSE: the answer to a text sent through the pipe
PipeResponse ==
    /\ Cardinality(Entries(RoleClaude)) + Cardinality(Entries(RoleLLM))
          < Cardinality(Entries(RoleYou))
    /\ \E response \in ResponseTexts :
          ChatBecomes(AppendEntry(Chat, RoleClaude, response))
    /\ UNCHANGED streaming
    /\ last' = Step("WM_PIPE_RESPONSE", NoPass, State)

\* WM_LLM_RESPONSE: the answer of the local model
LlmResponse ==
    /\ Cardinality(Entries(RoleClaude)) + Cardinality(Entries(RoleLLM))
          < Cardinality(Entries(RoleYou))
    /\ \E response \in ResponseTexts :
          ChatBecomes(AppendEntry(Chat, RoleLLM, response))
    /\ UNCHANGED streaming
    /\ last' = Step("WM_LLM_RESPONSE", NoPass, State)

ChatNext ==
    \/ PassStarts
    \/ TokenArrives
    \/ PassCompletes
    \/ PipeResponse
    \/ LlmResponse

\* One recording, seen from the chat window.
ChatSpec == GuardInit /\ [][ChatNext]_vars

(***************************************************************************)
(* The simulation loop of the harness (test_sim): when it kicks a pass, and  *)
(* when it ends.  Times are in samples; every length is a whole number of    *)
(* half seconds, which the loop's doubles hold exactly.                      *)
(***************************************************************************)
SAMPLE_RATE == 16000
SimUnit == SAMPLE_RATE \div 2
MaxSimLen == 8
MaxSimInterval == 4
MaxSimElapsed == 3

\* how long a backend call takes
SimElapsed == {e * SimUnit : e \in 0..MaxSimElapsed}

\* what a non-final pass comes to: no text, text and no commit, or a commit that
\* advances committed_samples
SimOutcomes ==
    {[text |-> FALSE, advance |-> 0], [text |-> TRUE, advance |-> -1]}
        \cup {[text |-> TRUE, advance |-> a * SimUnit] : a \in 0..MaxSimLen}

SimLoopInit ==
    /\ g_is_recording = FALSE
    /\ g_recording_samples = 0
    /\ g_committed_samples = 0
    /\ g_window_samples = 0
    /\ g_last_transcribe_samples = 0
    /\ g_transcribing = FALSE
    /\ g_want_final = FALSE
    /\ g_transcribe_thread = 0
    /\ g_prev_result = << >>
    /\ g_stable_len = 0
    /\ g_common0_unconfirmed = FALSE
    /\ g_asr_prompt = << >>
    /\ g_finalized_text = << >>
    /\ g_drill_mode = FALSE
    /\ queue = << >>
    /\ workers = {}
    /\ requests = << >>
    /\ session = 0
    /\ backend = "phrases"
    /\ g_audio_samples = 0
    /\ g_audio_write_pos = 0
    /\ g_recording_buffer = << >>
    /\ captured = 0
    /\ ChatEmpty
    /\ drill = NoDrill
    /\ conv = NoConv
    /\ \E n \in 0..MaxSimLen, interval \in 1..MaxSimInterval :
          sim = [ n_samples |-> n * SimUnit,
                  interval_samples |-> interval * SimUnit,
                  recording_samples |-> 0,
                  last_transcribe_samples |-> 0,
                  committed_samples |-> 0,
                  window_samples |-> 0,
                  pass_num |-> 0,
                  sim_clock |-> 0,
                  pc |-> "loop" ]
    /\ prior = "none"
    /\ probe = NoProbe
    /\ last = [op |-> "init", pass |-> NoPass, prev |-> << >>, out |-> << >>,
               issued |-> 0, promoted |-> 0]

\* one turn of while (1)
SimIteration(s, elapsed, outcome) ==
    LET min_samples == SAMPLE_RATE * 1
        kick == s.last_transcribe_samples + s.interval_samples
        next_kick == IF kick < s.sim_clock THEN s.sim_clock ELSE kick
        is_final == next_kick >= s.n_samples
        recording_samples == IF is_final THEN s.n_samples ELSE next_kick
        ws == recording_samples - s.committed_samples
        at == [s EXCEPT !.recording_samples = recording_samples]
        kicked == [at EXCEPT !.window_samples = ws,
                             !.last_transcribe_samples = recording_samples,
                             !.pass_num = @ + 1,
                             !.sim_clock = recording_samples + elapsed]
        sum == kicked.committed_samples + outcome.advance
        advanced == [kicked EXCEPT !.committed_samples =
                        IF sum > kicked.last_transcribe_samples
                        THEN kicked.last_transcribe_samples
                        ELSE sum]
        after == IF outcome.text /\ outcome.advance >= 0 THEN advanced ELSE kicked
    IN  IF ws < min_samples /\ ~is_final
        THEN IF recording_samples >= s.n_samples
             THEN [at EXCEPT !.pc = "break"]
             ELSE at
        ELSE IF ws < min_samples
             THEN [at EXCEPT !.pc = "promote"]
             ELSE IF is_final
                  THEN [kicked EXCEPT !.pc = "final"]
                  ELSE IF recording_samples >= s.n_samples
                       THEN [after EXCEPT !.pc = "break"]
                       ELSE after

SimLoop ==
    /\ sim.pc = "loop"
    /\ \E elapsed \in SimElapsed, outcome \in SimOutcomes :
          sim' = SimIteration(sim, elapsed, outcome)
    /\ UNCHANGED << recorder, chat, drill, conv >>
    /\ last' = Step("test_sim", NoPass, State)

\* The loop runs on while it has not left the while (1): the harness is a single
\* thread and every backend call returns.
SimLoopSpec == SimLoopInit /\ [][SimLoop]_vars /\ WF_vars(SimLoop)

(***************************************************************************)
(* The pronunciation drill (drill.c): drill_check compares the text of the   *)
(* recogniser with the selected sentence, codepoint by codepoint.            *)
(***************************************************************************)
DRILL_MAX_TEXT == 256
MaxDrillLen == 2

\* HOMOPHONES, each group ended by 0, the table ended by the sentinel
HOMOPHONES ==
    << <<20182, 22905, 23427, 0>>,
       <<30340, 22320, 24471, 0>>,
       <<20204, 0>>,
       <<36825, 36889, 0>>,
       <<37027, 21602, 0>>,
       <<21527, 21568, 22043, 21966, 0>>,
       <<20102, 20102, 0>>,
       <<26159, 20107, 0>>,
       <<22312, 20877, 0>>,
       <<20960, 24190, 0>>,
       <<28857, 40670, 0>>,
       <<37324, 35041, 35023, 0>>,
       <<22909, 0>>,
       <<24819, 30456, 0>>,
       <<22269, 22283, 36807, 36942, 0>>,
       <<37117, 0>>,
       <<20026, 28858, 0>>,
       <<20160, 29978, 0>>,
       <<20040, 40636, 40637, 0>>,
       <<20250, 26371, 0>>,
       <<26053, 0>>,
       <<28216, 36938, 0>>,
       <<0>> >>

\* the characters the texts of a run are made of: two of one homophone group
\* and one outside it, a Latin letter, e acute, space, ideographic full stop
DrillChars == {20182, 22905, 22909, 65, 233, 32, 12290}

\* cp_to_utf8: the bytes of one codepoint
cp_to_utf8(cp) ==
    IF cp < 128
    THEN << cp >>
    ELSE IF cp < 2048
         THEN << 192 + (cp \div 64), 128 + (cp % 64) >>
         ELSE IF cp < 65536
              THEN << 224 + (cp \div 4096), 128 + ((cp \div 64) % 64), 128 + (cp % 64) >>
              ELSE << 240 + (cp \div 262144), 128 + ((cp \div 4096) % 64),
                      128 + ((cp \div 64) % 64), 128 + (cp % 64) >>

\* the UTF-8 text of a sequence of codepoints
RECURSIVE Utf8(_)
Utf8(cps) == IF cps = << >> THEN << >> ELSE cp_to_utf8(Head(cps)) \o Utf8(Tail(cps))

\* every text of at most MaxDrillLen characters, as codepoints
DrillTexts == UNION {[1..n -> DrillChars] : n \in 0..MaxDrillLen}

\* the sentence bank: the chinese field of each sentence
Sentences ==
    << Utf8(<<20182>>), Utf8(<<20182, 22909>>), Utf8(<<22909, 12290>>), Utf8(<< >>) >>

\* the byte of a C string at index i (from 0): 0 past its end
ByteAt(str, i) == IF i < Len(str) THEN str[i + 1] ELSE 0

\* utf8_next_cp at index i of str: the codepoint and the bytes consumed
utf8_next_cp(str, i) ==
    LET s0 == ByteAt(str, i)
        s1 == ByteAt(str, i + 1)
        s2 == ByteAt(str, i + 2)
        s3 == ByteAt(str, i + 3)
        cont(b) == b \div 64 = 2
    IN  IF s0 = 0
        THEN [cp |-> 0, bytes |-> 0]
        ELSE IF s0 < 128
             THEN [cp |-> s0, bytes |-> 1]
             ELSE IF s0 \div 32 = 6
                  THEN IF ~cont(s1)
                       THEN [cp |-> 65533, bytes |-> 1]
                       ELSE [cp |-> (s0 % 32) * 64 + (s1 % 64), bytes |-> 2]
                  ELSE IF s0 \div 16 = 14
                       THEN IF ~cont(s1) \/ ~cont(s2)
                            THEN [cp |-> 65533, bytes |-> 1]
                            ELSE [cp |-> (s0 % 16) * 4096 + (s1 % 64) * 64 + (s2 % 64),
                                  bytes |-> 3]
                       ELSE IF s0 \div 8 = 30
                            THEN IF ~cont(s1) \/ ~cont(s2) \/ ~cont(s3)
                                 THEN [cp |-> 65533, bytes |-> 1]
                                 ELSE [cp |-> (s0 % 8) * 262144 + (s1 % 64) * 4096
                                                 + (s2 % 64) * 64 + (s3 % 64),
                                       bytes |-> 4]
                            ELSE [cp |-> 65533, bytes |-> 1]

\* utf8_to_codepoints: the loop from index i on, with cps gathered so far
RECURSIVE CodepointsFrom(_, _, _, _)
CodepointsFrom(str, i, cps, max_cps) ==
    IF ByteAt(str, i) = 0 \/ Len(cps) >= max_cps
    THEN cps
    ELSE LET next == utf8_next_cp(str, i)
         IN  IF next.bytes = 0
             THEN cps
             ELSE CodepointsFrom(str, i + next.bytes, Append(cps, next.cp), max_cps)

utf8_to_codepoints(str, max_cps) == CodepointsFrom(str, 0, << >>, max_cps)

is_strip_cp(cp) ==
    \/ cp <= 32
    \/ cp \in {46, 44, 33, 63, 59}
    \/ cp \in {12290, 65292, 65281, 65311, 12289, 65307, 8230}
    \/ cp \in {12298, 12299, 8220, 8221, 8216, 8217}

\* while (start < end && is_strip_cp(cps[start])) start++
RECURSIVE StripStart(_, _, _)
StripStart(cps, start, end) ==
    IF start < end /\ is_strip_cp(cps[start + 1])
    THEN StripStart(cps, start + 1, end)
    ELSE start

\* while (end > start && is_strip_cp(cps[end - 1])) end--
RECURSIVE StripEnd(_, _, _)
StripEnd(cps, start, end) ==
    IF end > start /\ is_strip_cp(cps[end])
    THEN StripEnd(cps, start, end - 1)
    ELSE end

\* strip_codepoints with only its second loop
strip_codepoints_end(cps) == SubSeq(cps, 1, StripEnd(cps, 0, Len(cps)))

\* strip_codepoints: the first count entries of the array it leaves
strip_codepoints(cps) ==
    LET start == StripStart(cps, 0, Len(cps))
        end == StripEnd(cps, start, Len(cps))
    IN  SubSeq(cps, start + 1, end)

\* the inner loop of homophones_match over one group: found_a && found_b
InGroup(group, cp_a, cp_b) ==
    LET stop == CHOOSE i \in 1..(Len(group) + 1) :
                    /\ i = Len(group) + 1 \/ group[i] = 0 \/ i > 6
                    /\ \A j \in 1..(i - 1) : group[j] # 0 /\ j <= 6
    IN  /\ \E i \in 1..(stop - 1) : group[i] = cp_a
        /\ \E i \in 1..(stop - 1) : group[i] = cp_b

homophones_match(cp_a, cp_b) ==
    IF cp_a = cp_b
    THEN 1
    ELSE LET sentinel == CHOOSE g \in 1..Len(HOMOPHONES) :
                            /\ HOMOPHONES[g][1] = 0
                            /\ \A h \in 1..(g - 1) : HOMOPHONES[h][1] # 0
         IN  IF \E g \in 1..(sentinel - 1) : InGroup(HOMOPHONES[g], cp_a, cp_b)
             THEN 1
             ELSE 0

\* last_diff after memset
NoDiff ==
    [ num_expected |-> 0,
      num_actual |-> 0,
      expected_cps |-> << >>,
      actual_cps |-> << >>,
      char_match |-> [i \in 1..DRILL_MAX_TEXT |-> 0],
      match |-> 0 ]

\* drill_check: the drill state it leaves and the value it returns
drill_check(ds, actual) ==
    IF ds.current_idx < 0 \/ ds.current_idx >= ds.num_sentences
    THEN [ds EXCEPT !.returned = 0]
    ELSE LET expected == Sentences[ds.current_idx + 1]
             expected_cps == utf8_to_codepoints(expected, DRILL_MAX_TEXT)
             actual_cps == strip_codepoints(utf8_to_codepoints(actual, DRILL_MAX_TEXT))
             num_expected == Len(expected_cps)
             num_actual == Len(actual_cps)
             min_len == IF num_expected < num_actual THEN num_expected ELSE num_actual
             char_match == [i \in 1..DRILL_MAX_TEXT |->
                               IF i <= min_len
                               THEN homophones_match(expected_cps[i], actual_cps[i])
                               ELSE 0]
             all_match == IF num_expected # num_actual
                          THEN 0
                          ELSE IF \E i \in 1..min_len : char_match[i] = 0 THEN 0 ELSE 1
         IN  [ds EXCEPT !.last_diff = [ num_expected |-> num_expected,
                                        num_actual |-> num_actual,
                                        expected_cps |-> expected_cps,
                                        actual_cps |-> actual_cps,
                                        char_match |-> char_match,
                                        match |-> all_match ],
                        !.has_result = 1,
                        !.returned = all_match]

DrillInit ==
    /\ g_is_recording = FALSE
    /\ g_recording_samples = 0
    /\ g_committed_samples = 0
    /\ g_window_samples = 0
    /\ g_last_transcribe_samples = 0
    /\ g_transcribing = FALSE
    /\ g_want_final = FALSE
    /\ g_transcribe_thread = 0
    /\ g_prev_result = << >>
    /\ g_stable_len = 0
    /\ g_common0_unconfirmed = FALSE
    /\ g_asr_prompt = << >>
    /\ g_finalized_text = << >>
    /\ g_drill_mode = FALSE
    /\ queue = << >>
    /\ workers = {}
    /\ requests = << >>
    /\ session = 0
    /\ backend = "phrases"
    /\ g_audio_samples = 0
    /\ g_audio_write_pos = 0
    /\ g_recording_buffer = << >>
    /\ captured = 0
    /\ ChatEmpty
    /\ conv = NoConv
    /\ sim = NoSim
    /\ \E loaded \in {0, Len(Sentences)} :
          drill = [ num_sentences |-> loaded,
                    current_idx |-> -1,
                    last_diff |-> NoDiff,
                    has_result |-> 0,
                    actual |-> << >>,
                    returned |-> -1,
                    pc |-> "drill_init" ]
    /\ prior = "none"
    /\ probe = NoProbe
    /\ last = [op |-> "init", pass |-> NoPass, prev |-> << >>, out |-> << >>,
               issued |-> 0, promoted |-> 0]

\* drill_advance: one of the loaded sentences is selected
DrillAdvance ==
    /\ drill.num_sentences > 0
    /\ \E selected \in 0..(drill.num_sentences - 1) :
          drill' = [drill EXCEPT !.current_idx = selected,
                                 !.has_result = 0,
                                 !.last_diff = NoDiff,
                                 !.actual = << >>,
                                 !.returned = -1,
                                 !.pc = "drill_advance"]
    /\ UNCHANGED << recorder, chat, sim, conv >>
    /\ last' = Step("drill_advance", NoPass, State)

\* WM_TRANSCRIBE_DONE in drill mode hands the text of a final pass to drill_check
DrillCheck ==
    /\ \E text \in DrillTexts \ {<< >>} :
          drill' = [drill_check(drill, Utf8(text)) EXCEPT !.actual = text,
                                                          !.pc = "drill_check"]
    /\ UNCHANGED << recorder, chat, sim, conv >>
    /\ last' = Step("drill_check", NoPass, State)

DrillNext ==
    \/ DrillAdvance
    \/ DrillCheck

DrillSpec == DrillInit /\ [][DrillNext]_vars

(***************************************************************************)
(* The window advance on its own: the audio_ms of a token, as                *)
(* asr_parse_response reads it with atoi, turned into samples and added to   *)
(* g_committed_samples.                                                      *)
(***************************************************************************)
INT_MAX == 2147483647
INT_MIN == -2147483647 - 1
MaxConvKicks == 3
MaxConvCommits == 2

\* timestamps over the range of int: ordinary ones, the first whose product with
\* 16 leaves the range, the largest, and negative ones
EdgeMs ==
    {0, 1, 1000, 3000, 134217727, 134217728, 268435455, 268435456, INT_MAX,
     -1, -1000, -134217728, INT_MIN}

\* a + b in int: the sum, and whether it leaves the range of int (undefined in C)
IntSumOverflows(a, b) ==
    \/ b > 0 /\ a > INT_MAX - b
    \/ b < 0 /\ a < INT_MIN - b

\* the low 32 bits of a + b as a signed value
IntSumWrapped(a, b) ==
    IF ~IntSumOverflows(a, b)
    THEN a + b
    ELSE IF b > 0
         THEN (a + INT_MIN) + (b + INT_MIN)
         ELSE (a - INT_MIN) + (b - INT_MIN)

\* what g_committed_samples += advance and the clamp can leave: without overflow
\* the clamped sum; with overflow either the clamped wrapped sum or the clamp of
\* the sum the compiler may take to be beyond the range
CommittedAfter(c, advance) ==
    LET clamp(v) == IF v > c.last_transcribe_samples
                    THEN c.last_transcribe_samples
                    ELSE v
    IN  IF ~IntSumOverflows(c.committed_samples, advance)
        THEN {clamp(c.committed_samples + advance)}
        ELSE {clamp(IntSumWrapped(c.committed_samples, advance)),
              IF advance > 0 THEN c.last_transcribe_samples
                             ELSE IntSumWrapped(c.committed_samples, advance)}

ConvInit ==
    /\ g_is_recording = FALSE
    /\ g_recording_samples = 0
    /\ g_committed_samples = 0
    /\ g_window_samples = 0
    /\ g_last_transcribe_samples = 0
    /\ g_transcribing = FALSE
    /\ g_want_final = FALSE
    /\ g_transcribe_thread = 0
    /\ g_prev_result = << >>
    /\ g_stable_len = 0
    /\ g_common0_unconfirmed = FALSE
    /\ g_asr_prompt = << >>
    /\ g_finalized_text = << >>
    /\ g_drill_mode = FALSE
    /\ queue = << >>
    /\ workers = {}
    /\ requests = << >>
    /\ session = 0
    /\ backend = "phrases"
    /\ g_audio_samples = 0
    /\ g_audio_write_pos = 0
    /\ g_recording_buffer = << >>
    /\ captured = 0
    /\ ChatEmpty
    /\ sim = NoSim
    /\ drill = NoDrill
    /\ \E kicks \in 1..MaxConvKicks :
          conv = [ committed_samples |-> 0,
                   last_transcribe_samples |-> kicks * RETRANSCRIBE_INTERVAL_SAMPLES,
                   audio_ms |-> 0,
                   advance |-> 0,
                   before |-> 0,
                   overflow |-> FALSE,
                   commits |-> 0,
                   pc |-> "kicked" ]
    /\ prior = "none"
    /\ probe = NoProbe
    /\ last = [op |-> "init", pass |-> NoPass, prev |-> << >>, out |-> << >>,
               issued |-> 0, promoted |-> 0]

\* a pass commits a sentence whose last token carries audio_ms
ConvCommit ==
    /\ conv.pc # "off"
    /\ conv.commits < MaxConvCommits
    /\ \E audio_ms \in EdgeMs :
          LET advance == MsToSamples(audio_ms)
          IN  \E after \in CommittedAfter(conv, advance) :
                conv' = [conv EXCEPT !.audio_ms = audio_ms,
                                     !.advance = advance,
                                     !.before = conv.committed_samples,
                                     !.overflow = IntSumOverflows(conv.committed_samples,
                                                                  advance),
                                     !.committed_samples = after,
                                     !.commits = @ + 1,
                                     !.pc = "commit"]
    /\ UNCHANGED << recorder, chat, sim, drill >>
    /\ last' = Step("WM_TRANSCRIBE_DONE", NoPass, State)

ConvSpec == ConvInit /\ [][ConvCommit]_vars

(***************************************************************************)
(* Properties of the engine.                                                *)
(***************************************************************************)
\* what the state machine reads and writes, without the record of the last step
engine == << g_is_recording, g_recording_samples, g_committed_samples, g_window_samples,
             g_last_transcribe_samples, g_transcribing, g_want_final,
             g_transcribe_thread, g_prev_result, g_stable_len, g_common0_unconfirmed,
             g_asr_prompt, g_finalized_text, g_drill_mode, queue, workers, requests,
             session >>

\* the requests whose completion has not been handled yet: the worker runs, or its
\* WM_TRANSCRIBE_DONE waits in the queue
InFlight ==
    (workers \cup {queue[i].request : i \in 1..Len(queue)}) \ {0}

\* C1: within one session the committed text only grows by appending: after every
\* step that stays in the session the old committed text is a prefix of the new one.
C1_AppendOnly ==
    [][session' = session => IsPrefix(g_finalized_text, g_finalized_text')]_vars

\* a second fragment has just been appended to text committed earlier in the session
C1_Witness ==
    /\ last.op = "WM_TRANSCRIBE_DONE"
    /\ Len(last.out) = 1
    /\ Len(g_finalized_text) > Len(last.out[1]) + 1

\* C2: at most one request is outstanding at any time, and a kick made by the tick
\* or by stop while a pass is in flight issues no request.
C2_OneInFlight ==
    /\ [](Cardinality(InFlight) <= 1)
    /\ [][(g_transcribing /\ last'.op \in {"WM_TIMER", "stop_recording"})
            => requests' = requests]_vars

\* stop has just kicked the final pass while a pass was in flight: nothing was issued
C2_Witness ==
    /\ last.op = "stop_recording"
    /\ g_transcribing
    /\ g_want_final
    /\ Cardinality(InFlight) = 1
    /\ last.issued = 0

\* C3: the committed audio offset stays between 0 and the number of samples
\* captured, and never decreases within a session, whatever text and timestamps
\* the backend returns.
C3_CommittedWithinCapture ==
    /\ [](0 <= g_committed_samples /\ g_committed_samples <= g_recording_samples)
    /\ [][session' = session => g_committed_samples' >= g_committed_samples]_vars

\* C4: a stop that arrives while a pass is in flight issues no request and only
\* sets the deferred-finalize flag, and when the pass in flight completes with the
\* flag set the finalize is carried out in that same step: the flag is cleared and
\* the final pass is issued or the retained tail is promoted (there is nothing to
\* promote when no tail is retained).
C4_DeferredFinalize ==
    /\ [][(g_transcribing /\ last'.op = "stop_recording")
            => /\ requests' = requests
               /\ queue' = queue
               /\ g_prev_result' = g_prev_result
               /\ g_finalized_text' = g_finalized_text
               /\ g_committed_samples' = g_committed_samples]_vars
    /\ [][(g_want_final /\ last'.op = "WM_TRANSCRIBE_DONE")
            => /\ ~g_want_final'
               /\ \/ last'.issued = 1 /\ requests'[Len(requests')].is_final
                  \/ last'.promoted = 1
                  \/ g_prev_result' = << >>]_vars

\* C5: once a session is stopped the only request still issued for it is one final
\* pass: a request issued by stop or after it is final, a session gets at most one
\* final request, and a tick that arrives when no recording runs changes nothing.
C5_OnlyOneFinalAfterStop ==
    /\ [][(Len(requests') > Len(requests)
             /\ (~g_is_recording' \/ last'.op = "stop_recording"))
            => requests'[Len(requests')].is_final]_vars
    /\ [](\A i, j \in 1..Len(requests) :
            (i < j /\ requests[i].session = requests[j].session)
                => ~requests[i].is_final)
    /\ [][(~g_is_recording /\ last'.op = "WM_TIMER") => UNCHANGED engine]_vars

\* a tick has arrived after the final pass of the stopped session came back
C5_Witness ==
    /\ last.op = "WM_TIMER"
    /\ ~g_is_recording
    /\ ~g_transcribing
    /\ InFlight = {}
    /\ \E i \in 1..Len(requests) :
          requests[i].session = session /\ requests[i].is_final

\* C6: every request sent to the backend, final or not, carries at least
\* RETRANSCRIBE_MIN_SAMPLES samples.
C6_RequestHasMinWindow ==
    \A i \in 1..Len(requests) : requests[i].n_samples >= RETRANSCRIBE_MIN_SAMPLES

\* a final kick has found less than the minimum uncommitted and sent nothing, in a
\* session that has issued a request before
C6_Witness ==
    /\ last.promoted = 1
    /\ last.issued = 0
    /\ g_recording_samples - g_committed_samples < RETRANSCRIBE_MIN_SAMPLES
    /\ \E i \in 1..Len(requests) : requests[i].session = session

\* C9: every stop is followed by the termination of the session, no pass in
\* flight and no deferred finalize pending: whenever a stopped session has nothing
\* left that could still run (no worker, no completion queued), it has terminated.
C9_StopTerminates ==
    (session > 0 /\ ~g_is_recording /\ InFlight = {} /\ queue = << >>)
        => (~g_transcribing /\ ~g_want_final)

\* the final kick of a stop step finds less than the minimum uncommitted
ShortAtStop ==
    /\ g_is_recording /\ ~g_is_recording'
    /\ ~g_transcribing
    /\ g_recording_samples >= RETRANSCRIBE_MIN_SAMPLES
    /\ g_recording_samples - g_committed_samples < RETRANSCRIBE_MIN_SAMPLES

\* the deferred final kick of a completion step finds less than the minimum
ShortAtDeferred ==
    /\ last'.op = "WM_TRANSCRIBE_DONE"
    /\ g_want_final /\ ~last'.pass.is_final
    /\ g_recording_samples' - g_committed_samples' < RETRANSCRIBE_MIN_SAMPLES

\* no request goes out and a retained tail is posted as the result of a final pass
PromotesTail ==
    /\ requests' = requests
    /\ g_prev_result' # << >> =>
          /\ queue' # << >>
          /\ queue'[Len(queue')] = PromotedPass(g_prev_result')

\* the promoted tail is being handled, outside drill mode
PromotedDone ==
    /\ last'.op = "WM_TRANSCRIBE_DONE"
    /\ last'.pass.request = 0
    /\ ~g_drill_mode

\* the session is over: nothing of it is left that could still commit
SessionOver ==
    ~g_is_recording /\ ~g_transcribing /\ ~g_want_final /\ InFlight = {} /\ queue = << >>

\* text is appended to the committed text as one fragment
Appended(text) ==
    /\ last'.out = << text >>
    /\ g_finalized_text' =
          IF g_finalized_text = << >> THEN text ELSE g_finalized_text \o <<32>> \o text

FinalDone ==
    /\ last'.op = "WM_TRANSCRIBE_DONE"
    /\ last'.pass.is_final
    /\ last'.pass.request > 0
    /\ last'.pass.tr.text # << >>
    /\ ~g_drill_mode

StrongBoundaryAt(text, i) ==
    /\ IsStrong(At(text, i))
    /\ (i + 1 = Len(text) \/ At(text, i + 1) = 32)

\* the largest member of a non-empty set of integers
Rightmost(S) == CHOOSE i \in S : \A j \in S : j <= i

\* C10: on a non-final pass, when current[floor..commonLen) contains a strong
\* boundary, the pass cuts at the rightmost one: it commits exactly the text from
\* floor up to and including that terminator (trailing spaces dropped), as
\* "Hello there." for previous "Hello there." and current "Hello there. And more".
C10_CutAtRightmostStrong ==
    [][(last'.op = "WM_TRANSCRIBE_DONE" /\ ~last'.pass.is_final /\ ~g_drill_mode)
        => LET current == last'.pass.tr.text
               commonLen == FuzzyCommon(current, g_prev_result)
               strong == {i \in g_stable_len..(commonLen - 1) :
                             StrongBoundaryAt(current, i)}
           IN  strong # {}
                 => last'.out = << StripTrailingSpaces(
                        Slice(current, g_stable_len, Rightmost(strong) + 1)) >>]_vars

\* a non-final pass with text was reconciled outside drill mode and fully diverged
\* from the retained text: nothing aligned, the retained text was not empty and the
\* floor was 0
FullDivergence ==
    /\ last'.op = "WM_TRANSCRIBE_DONE"
    /\ ~last'.pass.is_final
    /\ Len(last'.pass.tr.text) > 0
    /\ ~g_drill_mode
    /\ FuzzyCommon(last'.pass.tr.text, g_prev_result) = 0
    /\ Len(g_prev_result) > 0
    /\ g_stable_len = 0

\* C12: with the guard disarmed, a full divergence commits nothing, leaves the
\* retained tail as it was and arms the guard; with the guard armed (the state the
\* first divergence leaves), a full divergence makes its text the retained tail.
C12_SecondDivergenceReplaces ==
    [][FullDivergence =>
          IF ~g_common0_unconfirmed
          THEN /\ g_prev_result' = g_prev_result
               /\ g_common0_unconfirmed'
               /\ last'.out = << >>
               /\ g_finalized_text' = g_finalized_text
          ELSE /\ g_prev_result' = last'.pass.tr.text
               /\ last'.out = << >>]_vars

\* "abc" was retained, a pass fully diverged from it and left it, and the pass
\* after that, "qrs", has replaced it
C12_Witness ==
    /\ last.op = "WM_TRANSCRIBE_DONE"
    /\ ~last.pass.is_final
    /\ last.pass.tr.text = Qrs
    /\ last.prev = Abc
    /\ prior = "diverged"
    /\ g_common0_unconfirmed
    /\ g_prev_result = Qrs
    /\ g_finalized_text = << >>

\* C13: a full divergence replaces the retained tail only when the non-final pass
\* with text before it was a full divergence too; after a pass that aligned or
\* committed it leaves the retained tail as it was.
C13_ReplaceOnlyAfterDivergence ==
    [][FullDivergence =>
          IF prior = "diverged"
          THEN g_prev_result' = last'.pass.tr.text
          ELSE g_prev_result' = g_prev_result]_vars

\* a weak boundary of the text: ',' or ';' at byte i, immediately followed by a
\* space or by the end of the text
WeakBoundaryAt(text, i) ==
    /\ IsWeak(At(text, i))
    /\ (i + 1 = Len(text) \/ At(text, i + 1) = 32)

\* the cut behind the boundary at byte i: past the punctuation and the space after it
CutBehind(text, i) == IF At(text, i + 1) = 32 THEN i + 2 ELSE i + 1

\* C11: on a non-final pass, when current[floor..commonLen) contains no strong
\* boundary, the pass commits if and only if some weak boundary of that region has
\* boundary - floor >= 30 and commonLen - boundary >= 15, and then it commits the
\* text from floor up to the rightmost such boundary and retains the rest.
C11_WeakFallback ==
    [][(last'.op = "WM_TRANSCRIBE_DONE" /\ ~last'.pass.is_final /\ ~g_drill_mode
            /\ Len(last'.pass.tr.text) > 0)
        => LET current == last'.pass.tr.text
               commonLen == FuzzyCommon(current, g_prev_result)
               region == g_stable_len..(commonLen - 1)
               strong == {i \in region : StrongBoundaryAt(current, i)}
               eligible == {i \in region :
                               /\ WeakBoundaryAt(current, i)
                               /\ CutBehind(current, i) - g_stable_len >= WEAK_MIN_BEFORE
                               /\ commonLen - CutBehind(current, i) >= WEAK_MIN_AFTER}
               cut == CutBehind(current, Rightmost(eligible))
           IN  strong = {}
                 => IF eligible # {}
                    THEN /\ last'.out = << StripTrailingSpaces(
                                              Slice(current, g_stable_len, cut)) >>
                         /\ g_prev_result' = Slice(current, cut, Len(current))
                    ELSE last'.out = << >>]_vars

\* the compare has been applied to the texts of probe
Compared == probe.common # -1

\* where the run of spaces and hyphens that ends the text starts (the length of
\* a text that ends otherwise)
RECURSIVE TrailingRunStart(_)
TrailingRunStart(s) ==
    IF s # << >> /\ s[Len(s)] \in {32, 45}
    THEN TrailingRunStart(SubSeq(s, 1, Len(s) - 1))
    ELSE Len(s)

\* C14: the fuzzy compare of a text with itself gives the length of the text,
\* also for a text that ends with a space or a hyphen.
C14_AlignIdempotent ==
    (Compared /\ probe.current = probe.previous)
        => probe.common = Len(probe.current)

\* C14, as the compare has it: the fuzzy compare of a text with itself gives the
\* length of the text without the run of spaces and hyphens that ends it.
C14_AlignIdempotentUpToTrailingRun ==
    (Compared /\ probe.current = probe.previous)
        => probe.common = TrailingRunStart(probe.current)

\* a text that ends with a space and a hyphen was compared with itself
C14_Witness ==
    /\ Compared
    /\ probe.current = probe.previous
    /\ probe.current = <<97, 32, 45>>
    /\ probe.common = 1

\* a text under the normalization the spec gives for the compare: letters in lower
\* case, '-' as ' ', and every run of spaces and hyphens as one space
RECURSIVE Canonical(_)
Canonical(s) ==
    IF s = << >>
    THEN << >>
    ELSE LET h == Head(s)
             c == IF h \in 65..90 THEN h + 32 ELSE IF h = 45 THEN 32 ELSE h
             rest == Canonical(Tail(s))
         IN  IF c = 32 /\ rest # << >> /\ Head(rest) = 32
             THEN rest
             ELSE <<c>> \o rest

\* C15: the fuzzy compare gives the same value for every previous text that
\* differs from the one compared only in letter case, in '-' versus ' ' or in the
\* length of runs of spaces and hyphens, hence the value it gives for the
\* normalized previous text; "co-operate" against "co operate" gives 10.
C15_AlignUpToNormalization ==
    Compared
        => /\ probe.common = FuzzyCommon(probe.current, Canonical(probe.previous))
           /\ (probe.current = CoOperateHyphen /\ probe.previous = CoOperateSpace)
                 => probe.common = Len(CoOperateHyphen)

\* C15, as the compare has it: the forward walk of the compare reaches the same
\* offset for every previous text that differs only in letter case, in '-' versus
\* ' ' or in the length of runs of spaces and hyphens; "co-operate" against
\* "co operate" gives 10.
C15_WalkUpToNormalization ==
    Compared
        => /\ PrefixMatch(probe.current, probe.previous, 0, 0, 0)
                = PrefixMatch(probe.current, Canonical(probe.previous), 0, 0, 0)
           /\ (probe.current = CoOperateHyphen /\ probe.previous = CoOperateSpace)
                 => probe.common = Len(CoOperateHyphen)

\* "co-operate" was compared with "co operate"
C15_Witness ==
    /\ Compared
    /\ probe.current = CoOperateHyphen
    /\ probe.previous = CoOperateSpace
    /\ probe.common = 10

\* C16: the completion of a pass raises the committed offset by at most the
\* samples of the window that was sent for that pass (by nothing for a tail that
\* was promoted without a request), whatever timestamps come back.
C16_AdvanceWithinWindow ==
    [][last'.op = "WM_TRANSCRIBE_DONE"
        => g_committed_samples' - g_committed_samples
             <= IF last'.pass.request > 0
                THEN requests[last'.pass.request].n_samples
                ELSE 0]_vars

\* a pass whose timestamps lie beyond its window committed, and the offset moved
\* by the whole window, up to the position of the kick
C16_Witness ==
    /\ last.op = "WM_TRANSCRIBE_DONE"
    /\ last.pass.request > 0
    /\ last.pass.tr.timestamps = TsBeyondWindow
    /\ last.out # << >>
    /\ g_committed_samples > 0
    /\ g_committed_samples = g_last_transcribe_samples
    /\ MsToSamples(9000) > requests[last.pass.request].n_samples

\* the requests issued by the step just taken
Issued == {requests'[i] : i \in (Len(requests) + 1)..Len(requests')}

\* C17: a non-final pass that failed or came back without text is skipped: the
\* retained tail, the committed text, the committed offset, the prompt bias and
\* the divergence guard stay as they were and nothing goes to the host; the
\* in-flight flag is cleared, and the handler issues no non-final request (it
\* issues the final pass a stop has asked for meanwhile, which sets the flag anew).
C17_EmptyPassSkipped ==
    [][(last'.op = "WM_TRANSCRIBE_DONE" /\ ~last'.pass.is_final
            /\ Len(last'.pass.tr.text) = 0)
        => /\ UNCHANGED << g_prev_result, g_finalized_text, g_committed_samples,
                           g_asr_prompt, g_common0_unconfirmed, g_stable_len >>
           /\ last'.out = << >>
           /\ \A r \in Issued : r.is_final
           /\ g_transcribing' = (Issued # {})
           /\ (~g_want_final => Issued = {})]_vars

\* a failed non-final pass was skipped while a tail was retained, and no pass is
\* in flight now
C17_Witness ==
    /\ last.op = "WM_TRANSCRIBE_DONE"
    /\ ~last.pass.is_final
    /\ last.pass.request > 0
    /\ last.pass.tr.failed
    /\ last.prev # << >>
    /\ g_prev_result = last.prev
    /\ g_is_recording
    /\ ~g_transcribing

\* C18: a final pass that failed or came back without text commits nothing: the
\* committed text stays as it was, nothing goes to the host, no request is issued
\* again, and the session of the pass is over (not recording, nothing in flight).
C18_EmptyFinalTerminates ==
    [][(last'.op = "WM_TRANSCRIBE_DONE" /\ last'.pass.is_final
            /\ Len(last'.pass.tr.text) = 0)
        => /\ g_finalized_text' = g_finalized_text
           /\ last'.out = << >>
           /\ Issued = {}
           /\ requests[last'.pass.request].session = session
                 => (~g_is_recording' /\ ~g_transcribing' /\ ~g_want_final'
                       /\ queue' = << >> /\ workers' = {})]_vars

\* the final pass of a session that had retained a tail failed, and the session
\* is over with the tail uncommitted
C18_Witness ==
    /\ last.op = "WM_TRANSCRIBE_DONE"
    /\ last.pass.is_final
    /\ last.pass.request > 0
    /\ last.pass.tr.failed
    /\ requests[last.pass.request].session = session
    /\ g_finalized_text = << >>
    /\ g_prev_result # << >>
    /\ ~g_is_recording
    /\ ~g_transcribing

\* a non-final pass with text was reconciled outside drill mode
Reconciled ==
    /\ last'.op = "WM_TRANSCRIBE_DONE"
    /\ ~last'.pass.is_final
    /\ Len(last'.pass.tr.text) > 0
    /\ ~g_drill_mode

\* the pass committed current[floor..cut) for some cut and retains current[cut..)
CommittedAndKeptRest ==
    LET current == last'.pass.tr.text
    IN  \E cut \in (g_stable_len + 1)..Len(current) :
            /\ last'.out = << StripTrailingSpaces(Slice(current, g_stable_len, cut)) >>
            /\ g_prev_result' = Slice(current, cut, Len(current))

\* C19: after a pass the retained tail is the text of the pass without what it
\* committed: current[cutPoint..] after a commit, the whole of current after a
\* pass that commits nothing.
C19_TailIsRestOfCurrent ==
    [][Reconciled
        => IF last'.out # << >>
           THEN CommittedAndKeptRest
           ELSE g_prev_result' = last'.pass.tr.text]_vars

\* C19, as the handler has it: after a non-final pass with text the retained tail
\* is current[cutPoint..] after a commit and the whole of current after a pass that
\* commits nothing, except that a full divergence met with the guard disarmed
\* leaves the retained tail as it was.
C19_TailIsRestUnlessAbsorbed ==
    [][Reconciled
        => IF last'.out # << >>
           THEN CommittedAndKeptRest
           ELSE IF FullDivergence /\ ~g_common0_unconfirmed
                THEN g_prev_result' = g_prev_result
                ELSE g_prev_result' = last'.pass.tr.text]_vars

\* a pass committed its first sentence and retains the rest of its text
C19_Witness ==
    /\ last.op = "WM_TRANSCRIBE_DONE"
    /\ ~last.pass.is_final
    /\ last.out = << HelloThere >>
    /\ last.pass.tr.text = HelloThereAndMore
    /\ g_prev_result = <<65, 110, 100, 32, 109, 111, 114, 101>>

\* C20: start_recording leaves every field of the session zeroed, and a pass that
\* was requested in an earlier session and completes in the new one neither sets
\* the retained tail nor appends to the committed text.
C20_StartIsolatesSessions ==
    [][/\ last'.op = "start_recording"
            => /\ g_prev_result' = << >>
               /\ g_finalized_text' = << >>
               /\ g_asr_prompt' = << >>
               /\ g_committed_samples' = 0
               /\ g_last_transcribe_samples' = 0
               /\ g_recording_samples' = 0
               /\ g_stable_len' = 0
               /\ ~g_common0_unconfirmed'
               /\ ~g_want_final'
       /\ (last'.op = "WM_TRANSCRIBE_DONE" /\ last'.pass.request > 0
              /\ requests[last'.pass.request].session # session)
            => /\ g_prev_result' = g_prev_result
               /\ g_finalized_text' = g_finalized_text]_vars

\* C21: the window of every request starts at the committed offset and ends at
\* the captured length of the time of the kick, and within a session no request
\* starts before an earlier one or before the first sample.
C21_NoCommittedAudioResent ==
    [][\A r \in Issued :
          /\ r.start = g_committed_samples'
          /\ r.start + r.n_samples = g_recording_samples'
          /\ r.start >= 0
          /\ \A i \in 1..Len(requests) :
                requests[i].session = r.session => requests[i].start <= r.start]_vars

\* what test_sim comes to when its locals have the values of the engine state and
\* its request gets the answer of the pass just handled
SimAfter == SimPass(SimState, last'.pass.is_final, last'.pass.tr)

\* a pass that was requested from the backend was handled outside drill mode
Replicated ==
    /\ last'.op = "WM_TRANSCRIBE_DONE"
    /\ last'.pass.request > 0
    /\ ~g_drill_mode

\* the engine state after the step is what test_sim has after its iteration
SameStateAsSim ==
    /\ g_prev_result' = SimAfter.prev_result
    /\ g_common0_unconfirmed' = SimAfter.common0_unconfirmed
    /\ g_committed_samples' = SimAfter.committed_samples
    /\ g_stable_len' = SimAfter.stable_len

CatPassTwo ==
    /\ Reconciled
    /\ last'.pass.tr.text = TheCatSatOnTheMat
    /\ g_prev_result = TheCatSat
    /\ g_finalized_text = << >>
    /\ g_committed_samples = 0
    /\ ~g_common0_unconfirmed

\* the pass after it comes back with "on the mat. It was red."
CatPassThree ==
    /\ Reconciled
    /\ last'.pass.tr.text = OnTheMatItWasRed
    /\ g_prev_result = TheCatSatOnTheMat
    /\ g_finalized_text = << >>
    /\ g_committed_samples = 0
    /\ ~g_common0_unconfirmed

\* C23: of the passes "The cat sat", "The cat sat on the mat.", "on the mat. It
\* was red." of a fresh session, pass 2 commits exactly "The cat sat on the mat."
\* and leaves no pending text.
C23_CatCommitsOnPassTwo ==
    [][CatPassTwo
        => /\ last'.out = << TheCatSatOnTheMat >>
           /\ g_finalized_text' = TheCatSatOnTheMat
           /\ g_prev_result' = << >>]_vars

\* C23, as the handler has it: pass 2 commits nothing and its whole text is
\* pending (only "The cat sat" is aligned, and it holds no boundary); pass 3 aligns
\* with nothing, commits nothing either, leaves "The cat sat on the mat." pending
\* and arms the divergence guard.
C23_CatCommitsNothing ==
    [][/\ CatPassTwo
            => /\ last'.out = << >>
               /\ g_finalized_text' = << >>
               /\ g_prev_result' = TheCatSatOnTheMat
               /\ ~g_common0_unconfirmed'
       /\ CatPassThree
            => /\ last'.out = << >>
               /\ g_finalized_text' = << >>
               /\ g_prev_result' = TheCatSatOnTheMat
               /\ g_common0_unconfirmed']_vars

\* the three passes were handled: the third met "The cat sat on the mat." pending
\* and nothing is committed
C23_Witness ==
    /\ last.op = "WM_TRANSCRIBE_DONE"
    /\ last.pass.request = 3
    /\ last.pass.tr.text = OnTheMatItWasRed
    /\ last.prev = TheCatSatOnTheMat
    /\ g_prev_result = TheCatSatOnTheMat
    /\ g_common0_unconfirmed
    /\ g_finalized_text = << >>
    /\ prior = "diverged"

(***************************************************************************)
(* The audio ledger                                                         *)
(***************************************************************************)
\* C24: within a session the recording is append-only: no step that stays in the
\* session shortens it or changes an entry it already holds, and once it holds
\* MAX_AUDIO_SAMPLES (120 s) a further delivery leaves it as it is (the samples
\* are dropped, nothing wraps around).
C24_LedgerAppendOnly ==
    [][session' = session
          => /\ g_recording_samples' >= g_recording_samples
             /\ Len(g_recording_buffer') >= Len(g_recording_buffer)
             /\ \A i \in 1..Len(g_recording_buffer) :
                    g_recording_buffer'[i] = g_recording_buffer[i]
             /\ Len(g_recording_buffer') = Cells(g_recording_samples')
             /\ g_recording_samples' <= MAX_AUDIO_SAMPLES
             /\ g_recording_samples = MAX_AUDIO_SAMPLES
                   => g_recording_buffer' = g_recording_buffer]_vars

\* a delivery arrived with the recording at its capacity and the circular buffer
\* not full (a speech block had ended): its samples went to the circular buffer
\* only, and the recording still starts with the first delivery
C24_Witness ==
    /\ last.op = "add_audio_samples"
    /\ g_recording_samples = MAX_AUDIO_SAMPLES
    /\ g_audio_samples < MAX_AUDIO_SAMPLES
    /\ g_audio_samples > 0
    /\ captured > g_recording_buffer[Len(g_recording_buffer)] + 1
    /\ g_recording_buffer[1] = 1

(***************************************************************************)
(* The tick                                                                 *)
(***************************************************************************)
\* the step is a tick that issued a non-final pass
TickIssuedPass ==
    /\ last'.op = "WM_TIMER"
    /\ last'.issued = 1
    /\ ~requests'[Len(requests')].is_final

\* no pass in flight, at least the minimum window of uncommitted audio, and at
\* least the kick interval of audio captured since the last kick
TickConditions ==
    /\ ~g_transcribing
    /\ g_recording_samples - g_committed_samples >= RETRANSCRIBE_MIN_SAMPLES
    /\ g_recording_samples - g_last_transcribe_samples >= RETRANSCRIBE_INTERVAL_SAMPLES

\* C25: a tick issues a non-final pass if and only if no pass is in flight, the
\* uncommitted audio is at least the minimum window and at least the kick interval
\* (3 s) of audio has been captured since the last kick.
C25_TickIssuesIffDue ==
    [][last'.op = "WM_TIMER" => (TickIssuedPass <=> TickConditions)]_vars

\* C25, as the tick has it: the same, for a tick during a recording at which the
\* speech detector does not ask for the stop; a tick that stops the recording
\* runs stop_recording instead (which asks for the final pass), and a tick outside
\* a recording issues nothing.
C25_TickIssuesIffDueAndNotStopping ==
    [][last'.op = "WM_TIMER"
          => /\ TickIssuedPass <=> (g_is_recording /\ g_is_recording' /\ TickConditions)
             /\ last'.issued = 1 /\ ~TickIssuedPass => (g_is_recording /\ ~g_is_recording')
             /\ ~g_is_recording => last'.issued = 0]_vars

\* a tick issued the second non-final pass of a recording, 3 s after the first
C25_Witness ==
    /\ last.op = "WM_TIMER"
    /\ last.issued = 1
    /\ g_is_recording
    /\ Len(requests) >= 2
    /\ ~requests[Len(requests)].is_final
    /\ requests[Len(requests) - 1].session = session
    /\ g_last_transcribe_samples - requests[Len(requests) - 1].n_samples
          - requests[Len(requests) - 1].start >= RETRANSCRIBE_INTERVAL_SAMPLES

(***************************************************************************)
(* The sentence-boundary resync                                             *)
(***************************************************************************)
\* the indices right after a strong terminator and the space that follows it, the
\* terminator at or after from
SentenceStarts(s, from) ==
    {i + 2 : i \in {j \in from..(Len(s) - 2) : IsStrong(At(s, j)) /\ At(s, j + 1) = 32}}

Least(S) == CHOOSE x \in S : \A y \in S : x <= y

\* the length of the plain prefix match of the texts compared
PlainCommon == PrefixMatch(probe.current, probe.previous, 0, 0, 0)

\* the length the prefix match comes to when restarted after the first terminator
\* and space at or after PlainCommon of each text
Realigned ==
    LET sbA == Least(SentenceStarts(probe.current, PlainCommon))
        sbB == Least(SentenceStarts(probe.previous, PlainCommon))
    IN  [from |-> sbA, to |-> PrefixMatch(probe.current, probe.previous, sbA, sbB, sbA)]

ResyncApplies ==
    /\ PlainCommon < Len(probe.current)
    /\ PlainCommon < Len(probe.previous)
    /\ SentenceStarts(probe.current, PlainCommon) # {}
    /\ SentenceStarts(probe.previous, PlainCommon) # {}
    /\ Realigned.to - Realigned.from >= RESYNC_MIN_MATCH

\* C26: the compare gives the re-aligned length exactly when the plain prefix
\* match stops before the end of both texts, each text has a strong terminator
\* followed by a space at or after the plain length (the first one giving sbA,
\* sbB) and the match restarted at (sbA, sbB) extends at least 20 bytes past sbA;
\* in every other case it gives the plain prefix-match length.
C26_ResyncExactlyWhenEligible ==
    Compared => probe.common = IF ResyncApplies THEN Realigned.to ELSE PlainCommon

\* "b. " and "c. " followed by the same twenty letters: the plain match is empty
\* and the compare gives the re-aligned length 23
C26_Witness ==
    /\ Compared
    /\ probe.current = <<98, 46, 32>> \o Fill(RESYNC_MIN_MATCH)
    /\ probe.previous = <<99, 46, 32>> \o Fill(RESYNC_MIN_MATCH)
    /\ PlainCommon = 0
    /\ probe.common = 3 + RESYNC_MIN_MATCH

(***************************************************************************)
(* The commit boundary                                                      *)
(***************************************************************************)
\* C27: on a non-final pass, a committed fragment that ends with a strong
\* terminator ('.', '!', '?' or ':') was cut at a terminator that is immediately
\* followed, in the text of the pass, by a space or by the end of the text.
C27_StrongCutBeforeSpaceOrEnd ==
    [][(last'.op = "WM_TRANSCRIBE_DONE" /\ ~last'.pass.is_final /\ ~g_drill_mode
            /\ last'.out # << >>)
        => LET current == last'.pass.tr.text
               terminator == g_stable_len + Len(last'.out[1]) - 1
           IN  IsStrong(At(current, terminator))
                 => \/ terminator + 1 = Len(current)
                    \/ At(current, terminator + 1) = 32]_vars

(***************************************************************************)
(* The window advance                                                       *)
(***************************************************************************)
\* the cut point of a pass that committed: what follows it is the retained tail
CutPoint == Len(last'.pass.tr.text) - Len(g_prev_result')

\* the advance of a pass without tokens
Proportional == CDiv(g_window_samples * CutPoint, Len(last'.pass.tr.text))

\* the committed offset after an advance: moved by it, up to the position of the
\* last kick
AdvancedBy(advance) ==
    g_committed_samples' = Min(g_committed_samples + advance, g_last_transcribe_samples)

\* the greatest audio_ms among the tokens with byte_offset below the cut (0 when
\* there is none)
GreatestMs ==
    LET ts == last'.pass.tr.timestamps
        below == {t \in 1..Len(ts) : ts[t].byte_offset < CutPoint}
    IN  IF below = {} THEN 0
        ELSE ts[CHOOSE t \in below : \A u \in below : ts[u].audio_ms <= ts[t].audio_ms].audio_ms

\* the audio_ms of the last token before the first token whose byte_offset is
\* not below the cut (0 when the first token is not below it)
NearestMs ==
    LET ts == last'.pass.tr.timestamps
        run == {t \in 1..Len(ts) : \A u \in 1..t : ts[u].byte_offset < CutPoint}
    IN  IF run = {} THEN 0 ELSE ts[Rightmost(run)].audio_ms

\* C28: a commit advances the committed offset by the greatest audio_ms among the
\* tokens with byte_offset below the cut point, converted at 16 kHz, when the pass
\* has tokens (monotonic or not), and by windowSamples * cutPoint / resultLen when
\* it has none.
C28_AdvanceByGreatestMs ==
    [][(Reconciled /\ last'.out # << >>)
        => IF Len(last'.pass.tr.timestamps) > 0
           THEN AdvancedBy(MsToSamples(GreatestMs))
           ELSE AdvancedBy(Proportional)]_vars

\* C28, as the handler has it: with tokens, the advance is the audio_ms of the
\* token nearest before the cut in the order of the list (the last one of the
\* leading tokens with byte_offset below the cut), converted at 16 kHz, whether or
\* not an earlier token has a greater audio_ms; without tokens it is
\* windowSamples * cutPoint / resultLen.
C28_AdvanceByNearestMs ==
    [][(Reconciled /\ last'.out # << >>)
        => IF Len(last'.pass.tr.timestamps) > 0
           THEN AdvancedBy(MsToSamples(NearestMs))
           ELSE AdvancedBy(Proportional)]_vars

\* a pass with tokens (0, 2500 ms), (6, 2000 ms), (13, 4000 ms) committed
\* "Hello there." with the cut at byte 13, and the offset moved by 2000 ms
C28_Witness ==
    /\ last.op = "WM_TRANSCRIBE_DONE"
    /\ ~last.pass.is_final
    /\ last.pass.tr.timestamps = TsNonMonotonic
    /\ last.out = << HelloThere >>
    /\ Len(last.pass.tr.text) - Len(g_prev_result) = 13
    /\ g_committed_samples = MsToSamples(2000)
    /\ g_committed_samples < g_last_transcribe_samples

(***************************************************************************)
(* The divergence guard after a pass                                        *)
(***************************************************************************)
\* C29: after a non-final pass with text the guard is armed exactly when that pass
\* was a first full divergence (a full divergence met with the guard disarmed): a
\* second full divergence in a row, like any pass that is not a full divergence,
\* leaves the guard disarmed.
C29_ArmedOnlyByFirstDivergence ==
    [][Reconciled
          => (g_common0_unconfirmed' <=> (FullDivergence /\ ~g_common0_unconfirmed))]_vars

(***************************************************************************)
(* The pass without a boundary                                              *)
(***************************************************************************)
\* current[floor..commonLen) of the pass holds no strong boundary and no weak
\* boundary with boundary - floor >= 30 and commonLen - boundary >= 15
NoBoundary ==
    LET current == last'.pass.tr.text
        commonLen == FuzzyCommon(current, g_prev_result)
        region == g_stable_len..(commonLen - 1)
    IN  \A i \in region :
            /\ ~StrongBoundaryAt(current, i)
            /\ ~(/\ WeakBoundaryAt(current, i)
                 /\ CutBehind(current, i) - g_stable_len >= WEAK_MIN_BEFORE
                 /\ commonLen - CutBehind(current, i) >= WEAK_MIN_AFTER)

\* C30: a non-final pass whose aligned region holds neither a strong boundary nor
\* an eligible weak boundary commits nothing: no fragment goes to the host, and
\* the committed text, the committed offset and the prompt bias stay as they were.
C30_NoBoundaryNoCommit ==
    [][(Reconciled /\ NoBoundary)
          => /\ last'.out = << >>
             /\ g_finalized_text' = g_finalized_text
             /\ g_committed_samples' = g_committed_samples
             /\ g_asr_prompt' = g_asr_prompt]_vars

(***************************************************************************)
(* The prompt bias                                                          *)
(***************************************************************************)
\* the step reconciled a non-final pass that was requested in the running
\* session, and the pass committed a fragment
CommittedInSession ==
    /\ Reconciled
    /\ last'.out # << >>
    /\ last'.pass.request > 0
    /\ requests[last'.pass.request].session = session

\* a request stays in flight across the step: its worker thread runs before and
\* after it
InFlightAcross == workers \cap workers' # {}

\* g_asr_prompt, which the worker thread of a kick hands to the backend, is the
\* last fragment a non-final pass of the session committed: start_recording
\* empties it, a committing non-final pass of the session sets it to its fragment,
\* and nothing else changes it
PromptIsLastFragment ==
    IF last'.op = "start_recording"
    THEN g_asr_prompt' = << >>
    ELSE IF CommittedInSession
         THEN g_asr_prompt' = last'.out[1]
         ELSE g_asr_prompt' = g_asr_prompt

\* C31: at every kick the prompt bias is the most recent fragment committed by a
\* non-final pass of the running session (empty when there is none), and it does
\* not change while a pass is in flight.
C31_PromptBiasStable ==
    [][/\ PromptIsLastFragment
       /\ InFlightAcross => g_asr_prompt' = g_asr_prompt]_vars

(***************************************************************************)
(* The pending floor                                                        *)
(***************************************************************************)
\* C32: g_stable_len is 0 in every reachable state.
C32_FloorAlwaysZero == g_stable_len = 0

\* a non-final pass of the second session committed, after start_recording and
\* the commit had each set the floor
C32_Witness ==
    /\ last.op = "WM_TRANSCRIBE_DONE"
    /\ ~last.pass.is_final
    /\ last.out # << >>
    /\ session = 2
    /\ requests[last.pass.request].session = 2
    /\ g_stable_len = 0

(***************************************************************************)
(* The advance of a commit                                                  *)
(***************************************************************************)
\* C33: a non-final pass that commits a non-empty fragment moves the committed
\* offset strictly forward.
C33_CommitAdvances ==
    [][(Reconciled /\ last'.out # << >> /\ Len(last'.out[1]) > 0)
          => g_committed_samples' > g_committed_samples]_vars

(***************************************************************************)
(* Bounds of the aligned length and of the cut                              *)
(***************************************************************************)
\* the cut of the pass just reconciled: the end of what it committed, the floor
\* when it committed nothing
CutOfPass == IF last'.out # << >> THEN CutPoint ELSE g_stable_len

\* C34: for every non-final pass, 0 <= commonLen <= length(current), the resync
\* does not lower the length the prefix match gave, floor <= cutPoint <=
\* min(length(current), commonLen + 1), and a pass with commonLen = 0 commits
\* nothing.
C34_CutWithinAligned ==
    [][Reconciled
        => LET current == last'.pass.tr.text
               plain == PrefixMatch(current, g_prev_result, 0, 0, 0)
               commonLen == FuzzyCommon(current, g_prev_result)
           IN  /\ 0 <= plain
               /\ plain <= commonLen
               /\ commonLen <= Len(current)
               /\ g_stable_len <= CutOfPass
               /\ CutOfPass <= Min(Len(current), commonLen + 1)
               /\ last'.out # << >>
                     => last'.out = << StripTrailingSpaces(
                                         Slice(current, g_stable_len, CutOfPass)) >>
               /\ commonLen = 0
                     => /\ last'.out = << >>
                        /\ g_finalized_text' = g_finalized_text]_vars

\* "c. " and twenty letters were retained and the pass brought "b. " and the same
\* letters: the prefix match gave 0, the resync 23, and the pass committed "b."
\* with the cut at byte 3
C34_Witness ==
    /\ last.op = "WM_TRANSCRIBE_DONE"
    /\ ~last.pass.is_final
    /\ last.prev = <<99, 46, 32>> \o Fill(RESYNC_MIN_MATCH)
    /\ last.pass.tr.text = <<98, 46, 32>> \o Fill(RESYNC_MIN_MATCH)
    /\ PrefixMatch(last.pass.tr.text, last.prev, 0, 0, 0) = 0
    /\ FuzzyCommon(last.pass.tr.text, last.prev) = 3 + RESYNC_MIN_MATCH
    /\ last.out = << <<98, 46>> >>
    /\ g_prev_result = Fill(RESYNC_MIN_MATCH)

\* stop was requested in session k while a non-final pass was in flight: the
\* audio has stopped, the finalize is deferred, the pass has not been handled, and
\* the session holds a pending tail that is not committed yet
DeferredIn(k) ==
    /\ session = k
    /\ ~g_is_recording
    /\ g_want_final
    /\ g_prev_result # << >>
    /\ InFlight # {}
    /\ \A id \in InFlight : ~requests[id].is_final /\ requests[id].session = k
    /\ Len(requests) < PassLimit

\* the deferred finalize of session k was carried out: the flag was consumed in
\* session k by a final pass of that session, by the promotion of its tail, or
\* with no tail left to commit
FinalizedIn(k) ==
    /\ session = k
    /\ ~g_want_final
    /\ last.op = "WM_TRANSCRIBE_DONE"
    /\ \/ last.issued = 1 /\ requests[Len(requests)].is_final
                         /\ requests[Len(requests)].session = k
       \/ last.promoted = 1
       \/ g_prev_result = << >>

\* C35: a deferred finalize is never lost: when stop is requested while a
\* non-final pass is in flight, the stopped session's remaining text is eventually
\* committed by a final pass or by the promotion of the short tail, also when a new
\* recording is started before the pass in flight completes.
C35_DeferredFinalizeNotLost ==
    \A k \in 1..MaxSessions : DeferredIn(k) ~> FinalizedIn(k)

\* the entries appended so far, one after the other
RECURSIVE Flatten(_)
Flatten(lines) ==
    IF lines = << >> THEN << >> ELSE Head(lines) \o Flatten(Tail(lines))

\* nothing, or one well-formed interim line "[...] text\r\n"
AtMostOneInterim(x) ==
    \/ x = << >>
    \/ /\ Len(x) > Len(ChatLine(RoleInterim, << >>))
       /\ x = ChatLine(RoleInterim, SubSeq(x, 7, Len(x) - 2))
       /\ \A i \in 7..(Len(x) - 2) : x[i] \notin {0, 10, 13, 91}

\* C36: replacing or removing the interim line never deletes or corrupts another
\* chat entry: whatever the order of tokens, pass completions and responses, the
\* chat text is the [You] lines and responses appended so far, in order, followed
\* by at most one interim line.
C36_ChatLogIntact ==
    LET text == Shown(g_chat_log)
        kept == Flatten(appended)
    IN  /\ g_chat_len = Len(text)
        /\ IsPrefix(kept, text)
        /\ AtMostOneInterim(SubSeq(text, Len(kept) + 1, Len(text)))

\* where line first occurs in text at or after position from, 0 for nowhere
FirstAt(line, text, from) ==
    LET at == {i \in from..(Len(text) - Len(line) + 1) :
                  SubSeq(text, i, i + Len(line) - 1) = line}
    IN  IF at = {} THEN 0 ELSE CHOOSE i \in at : \A j \in at : i <= j

\* the lines occur in text one after the other, from position from on
RECURSIVE InOrder(_, _, _)
InOrder(lines, text, from) ==
    IF lines = << >>
    THEN TRUE
    ELSE LET at == FirstAt(Head(lines), text, from)
         IN  at > 0 /\ InOrder(Tail(lines), text, at + Len(Head(lines)))

\* C36, the other entries alone: every [You] line and response appended so far
\* is still in the chat text, whole and in order, whatever lies between them.
C36_EntriesKept == InOrder(appended, Shown(g_chat_log), 1)

\* C37: the simulation loop of the harness terminates for every recording length
\* and every positive interval, also one shorter than the minimum window of one
\* second: it always reaches the final pass or the promotion of the short tail.
C37_SimLoopTerminates == <>(sim.pc \in {"final", "promote"})

\* C37 for intervals of at least the minimum window
C37_TerminatesFromMinWindow ==
    (sim.interval_samples >= SAMPLE_RATE * 1) => <>(sim.pc \in {"final", "promote"})

\* the codepoints of a text without its leading and trailing whitespace and
\* punctuation
Bare(cps) ==
    LET inner == {i \in 1..Len(cps) : ~is_strip_cp(cps[i])}
    IN  IF inner = {}
        THEN << >>
        ELSE SubSeq(cps, CHOOSE i \in inner : \A j \in inner : i <= j,
                         CHOOSE i \in inner : \A j \in inner : i >= j)

\* two codepoints are equal or share a group of the homophone table
Homophone(a, b) ==
    \/ a = b
    \/ \E g \in 1..Len(HOMOPHONES) :
          /\ a # 0 /\ b # 0
          /\ \E i \in 1..Len(HOMOPHONES[g]) : HOMOPHONES[g][i] = a
          /\ \E i \in 1..Len(HOMOPHONES[g]) : HOMOPHONES[g][i] = b

\* the codepoints of the sentences of the bank
TargetCps == << <<20182>>, <<20182, 22909>>, <<22909, 12290>>, << >> >>

\* C38: drill_check returns 1 exactly when a sentence is selected and the text of
\* the recogniser, stripped of leading and trailing whitespace and punctuation,
\* has as many codepoints as the target and matches it at every position under
\* homophone equivalence; otherwise it returns 0; either way char_match holds the
\* result of every position.
C38_DrillCheckExact ==
    drill.pc = "drill_check" =>
        LET selected == drill.current_idx >= 0 /\ drill.current_idx < drill.num_sentences
            target == IF selected THEN TargetCps[drill.current_idx + 1] ELSE << >>
            said == Bare(drill.actual)
            same(i) == i <= Len(target) /\ i <= Len(said) /\ Homophone(target[i], said[i])
            matches == /\ selected
                       /\ Len(said) = Len(target)
                       /\ \A i \in 1..Len(target) : same(i)
        IN  /\ drill.returned = IF matches THEN 1 ELSE 0
            /\ \A i \in 1..DRILL_MAX_TEXT :
                  drill.last_diff.char_match[i] = IF selected /\ same(i) THEN 1 ELSE 0

C38_Witness ==
    /\ drill.pc = "drill_check"
    /\ drill.returned = 1
    /\ drill.actual = <<32, 22905>>
    /\ drill.last_diff.char_match[1] = 1

\* a checked text that is one codepoint short: the first position matches
C38_WitnessMiss ==
    /\ drill.pc = "drill_check"
    /\ drill.returned = 0
    /\ drill.current_idx = 1
    /\ drill.actual = <<22905, 12290>>
    /\ drill.last_diff.char_match[1] = 1
    /\ drill.last_diff.char_match[2] = 0

\* C39: turning a token's audio_ms into a sample advance does not overflow: for
\* every audio_ms in the range of a 32-bit int the advance is not negative and
\* g_committed_samples + advance does not wrap before the clamp, so no timestamp
\* moves g_committed_samples backwards.
C39_AdvanceNeverBackwards ==
    conv.pc = "commit" =>
        /\ conv.advance >= 0
        /\ ~conv.overflow
        /\ conv.committed_samples >= conv.before

\* C39 for the timestamps of a window of a few seconds
C39_HoldsForSmallMs ==
    (conv.pc = "commit" /\ conv.audio_ms >= 0 /\ conv.audio_ms <= 3000
        /\ conv.before >= 0)
        => /\ conv.advance >= 0
           /\ ~conv.overflow
           /\ conv.committed_samples >= conv.before
====
